---- MODULE Spec2Model ----
(***************************************************************************)
(* The cube store of the pivot front end (frontend/src/store/cubeStore.js) *)
(* as a state machine: the pivot configuration, the drill-down state       *)
(* (expandedItems), the selected cube and its metadata, and the API calls  *)
(* in flight.                                                              *)
(*                                                                         *)
(* Strings that take part in drill-down keys are modelled as non-empty     *)
(* sequences of colon-free segments: the JavaScript string "10:30" is      *)
(* <<"10", "30">> and "Date" is <<"Date">>.  Joining strings with ':' is   *)
(* then concatenation of segment sequences and split(':') yields one       *)
(* single-segment string per segment, which is exactly what the template   *)
(* literal and String.prototype.split do.                                  *)
(*                                                                         *)
(* A value that may be null is a sequence of length at most one: Null is   *)
(* <<>> and a present value x is <<x>>.                                    *)
(***************************************************************************)
EXTENDS Integers, Sequences, FiniteSets, TLC

VARIABLES
    cubes,          \* ref([])      names of the known cubes
    currentCube,    \* ref(null)    Null or Some(cube name)
    cubeMetadata,   \* ref(null)    Null or Some(metadata)
    loading,        \* ref(false)
    error,          \* ref(null)    Null or Some(message)
    pivotConfig,    \* ref({rows, columns, measures, filters})
    expandedItems,  \* ref({})      the keys of the object, in insertion order
    queryResult,    \* ref(null)    Null or Some(result)
    generatedSQL,   \* ref('')
    inflight,       \* API requests awaiting their response, in issue order
    lastOp,         \* the store operation (or API response) that ran last
    queryHistory,   \* NaturalQuery.vue: ref([])  newest entry first
    nl2sql,         \* the server's NL2SQL pipeline for the request it serves
    registry,       \* the server's cube metadata registry
    registryOps,    \* the parse-and-register and the lookup under way
    issued,         \* query requests sent since the last call of a query action
    compileLog,     \* the server's compile calls so far: cube, config and outcome
    rendered,       \* PivotTable.vue: the column headers computed so far
    calls           \* history of the store's calls: the cube asked for last,
                    \* whether anything but a drill toggle was called since the
                    \* last one, the cubes the pivot entries were chosen under,
                    \* whether a listing, selection or upload has failed, the
                    \* request the last step rejected (if it rejected one), and
                    \* the questions submitted and the history entries added

vars == <<cubes, currentCube, cubeMetadata, loading, error, pivotConfig,
          expandedItems, queryResult, generatedSQL, inflight, lastOp,
          queryHistory, nl2sql, registry, registryOps, issued, compileLog, rendered, calls>>

----------------------------------------------------------------------------
(* Bounds of the model. *)

MaxExpanded == 2   \* keys held by expandedItems
MaxFields == 2     \* entries on the rows and columns lists together
MaxExtras == 1     \* entries on the measures and filters lists together
MaxInflight == 1   \* API requests in flight at once

----------------------------------------------------------------------------
(* Values. *)

Null == <<>>
Some(x) == <<x>>

\* A one-segment (colon-free) string.
S(a) == <<a>>

\* JavaScript primitive values as the query result rows hold them.
Num(text) == [type |-> "number", text |-> text]
Str(text) == [type |-> "string", text |-> text]

\* `${value}`: the string a template literal makes of a value.
TemplateString(v) == v.text

Join(parts) ==
    LET RECURSIVE J(_)
        J(i) == IF i > Len(parts) THEN <<>> ELSE parts[i] \o J(i + 1)
    IN J(1)

Split(s) == [i \in 1..Len(s) |-> S(s[i])]

----------------------------------------------------------------------------
(* The cubes the server knows and the metadata it returns for each. *)

Level(name) == [name |-> S(name)]

SalesMetadata ==
    [name |-> "Sales",
     dimensions |-> << [name |-> S("Date"),
                        levels |-> <<Level("Year"), Level("Quarter"), Level("Month")>>] >>,
     measures |-> << [name |-> "SalesAmount"] >>]

OpsMetadata ==
    [name |-> "Ops",
     dimensions |-> << [name |-> S("Date"), levels |-> <<Level("Year")>>] >>,
     measures |-> << [name |-> "Duration"] >>]

CubeNames == {"Sales", "Ops"}

MetadataOf(cubeName) == IF cubeName = "Sales" THEN SalesMetadata ELSE OpsMetadata

----------------------------------------------------------------------------
(* Array helpers. *)

\* Array.prototype.findIndex, 1-based; 0 stands for JavaScript's -1.
FindIndex(hits) ==
    IF hits = {} THEN 0 ELSE CHOOSE i \in hits : \A j \in hits : i <= j

\* splice(index, 1) with a 0-based index: the element at 1-based position i goes.
RemoveAt(seq, i) == SubSeq(seq, 1, i - 1) \o SubSeq(seq, i + 1, Len(seq))

\* InsertAfter with the index off by one: splice(currentIdx, 0, x).
InsertBefore(seq, i, x) == SubSeq(seq, 1, i - 1) \o <<x>> \o SubSeq(seq, i, Len(seq))

\* splice(currentIdx + 1, 0, x), for the 1-based position i of the element
\* that x follows.
InsertAfter(seq, i, x) == SubSeq(seq, 1, i) \o <<x>> \o SubSeq(seq, i + 1, Len(seq))

\* The list a drop zone writes back when x is dropped at the 0-based position.
DropAt(seq, position, x) ==
    SubSeq(seq, 1, position) \o <<x>> \o SubSeq(seq, position + 1, Len(seq))

SameField(f, dimension, level) == f.dimension = dimension /\ f.level = level

----------------------------------------------------------------------------
(* getNextLevel, hasNextLevel, isExpanded. *)

\* getNextLevel returning the finest level of the dimension.
getNextLevelFinest(metadata, dimensionName, currentLevel) ==
    IF metadata = Null THEN Null
    ELSE LET dims == metadata[1].dimensions
             d == FindIndex({i \in 1..Len(dims) : dims[i].name = dimensionName})
         IN IF d = 0 THEN Null
            ELSE LET levels == dims[d].levels
                     currentIndex == FindIndex({i \in 1..Len(levels) : levels[i].name = currentLevel})
                 IN IF currentIndex = 0 \/ currentIndex >= Len(levels)
                    THEN Null
                    ELSE Some(levels[Len(levels)])

\* getNextLevel without the test for a level the dimension does not have.
getNextLevelNoIndexCheck(metadata, dimensionName, currentLevel) ==
    IF metadata = Null THEN Null
    ELSE LET dims == metadata[1].dimensions
             d == FindIndex({i \in 1..Len(dims) : dims[i].name = dimensionName})
         IN IF d = 0 THEN Null
            ELSE LET levels == dims[d].levels
                     currentIndex == FindIndex({i \in 1..Len(levels) : levels[i].name = currentLevel})
                 IN IF currentIndex >= Len(levels)
                    THEN Null
                    ELSE Some(levels[currentIndex + 1])

getNextLevelIn(metadata, dimensionName, currentLevel) ==
    IF metadata = Null THEN Null
    ELSE LET dims == metadata[1].dimensions
             d == FindIndex({i \in 1..Len(dims) : dims[i].name = dimensionName})
         IN IF d = 0 THEN Null
            ELSE LET levels == dims[d].levels
                     currentIndex == FindIndex({i \in 1..Len(levels) : levels[i].name = currentLevel})
                 IN IF currentIndex = 0 \/ currentIndex >= Len(levels)
                    THEN Null
                    ELSE Some(levels[currentIndex + 1])

getNextLevel(dimensionName, currentLevel) ==
    getNextLevelIn(cubeMetadata, dimensionName, currentLevel)

hasNextLevel(dimensionName, currentLevel) ==
    getNextLevel(dimensionName, currentLevel) # Null

\* The property name a toggle and isExpanded build for a header cell.
KeyOf(type, dimensionName, level, value) ==
    Join(<<S(type), dimensionName, level, TemplateString(value)>>)

Contains(seq, x) == \E i \in 1..Len(seq) : seq[i] = x

isExpandedIn(items, type, dimensionName, level, value) ==
    Contains(items, KeyOf(type, dimensionName, level, value))

isExpanded(type, dimensionName, level, value) ==
    isExpandedIn(expandedItems, type, dimensionName, level, value)

----------------------------------------------------------------------------
(* buildDrillDownConfig. *)

\* The loop iteration without the test for a next level already on the list.
ApplyKeyNoExistsCheck(config, key, metadata) ==
    LET parts == Split(key)
        type == parts[1]
        dimName == parts[2]
        level == parts[3]
        value == parts[4]
        nextLevel == getNextLevelIn(metadata, dimName, level)
        Grow(list) ==
            LET currentIdx == FindIndex({i \in 1..Len(list) : SameField(list[i], dimName, level)})
            IN IF currentIdx # 0
               THEN InsertAfter(list, currentIdx,
                                [dimension |-> dimName, level |-> nextLevel[1].name])
               ELSE list
    IN IF nextLevel = Null THEN config
       ELSE [config EXCEPT
               !.columns = IF type = S("col") THEN Grow(@) ELSE @,
               !.rows = IF type = S("row") THEN Grow(@) ELSE @,
               !.filters = Append(@, [dimension |-> dimName,
                                      level |-> level,
                                      operator |-> "=",
                                      values |-> <<Str(value)>>])]

\* One iteration of the loop over Object.keys(expandedItems).
ApplyKey(config, key, metadata) ==
    LET parts == Split(key)
        type == parts[1]
        dimName == parts[2]
        level == parts[3]
        value == parts[4]
        nextLevel == getNextLevelIn(metadata, dimName, level)
        Grow(list) ==
            LET exists == \E i \in 1..Len(list) :
                              SameField(list[i], dimName, nextLevel[1].name)
                currentIdx == FindIndex({i \in 1..Len(list) : SameField(list[i], dimName, level)})
            IN IF ~exists /\ currentIdx # 0
               THEN InsertAfter(list, currentIdx,
                                [dimension |-> dimName, level |-> nextLevel[1].name])
               ELSE list
    IN IF nextLevel = Null THEN config
       ELSE [config EXCEPT
               !.columns = IF type = S("col") THEN Grow(@) ELSE @,
               !.rows = IF type = S("row") THEN Grow(@) ELSE @,
               !.filters = Append(@, [dimension |-> dimName,
                                      level |-> level,
                                      operator |-> "=",
                                      values |-> <<Str(value)>>])]

RECURSIVE ApplyKeys(_, _, _, _)
ApplyKeys(config, keys, i, metadata) ==
    IF i > Len(keys) THEN config
    ELSE ApplyKeys(ApplyKey(config, keys[i], metadata), keys, i + 1, metadata)

\* The effective config for a base config, the keys in insertion order and
\* the metadata getNextLevel reads.
EffectiveConfig(base, keys, metadata) == ApplyKeys(base, keys, 1, metadata)

buildDrillDownConfig == EffectiveConfig(pivotConfig, expandedItems, cubeMetadata)

\* A call of buildDrillDownConfig on the arrays of the store.  The arrays are
\* cells of a heap named by references; config holds the references its four
\* properties were initialised with, and the loop writes through them.  The
\* call yields the config returned and the store's pivotConfig and
\* expandedItems as the call leaves them.
PivotRefs == [rows |-> "pivotConfig.rows", columns |-> "pivotConfig.columns",
              measures |-> "pivotConfig.measures", filters |-> "pivotConfig.filters"]

\* The array [...array] evaluates to: the source array itself.
SpreadAliases(from, fresh) == from

\* The array [...array] evaluates to: a new array with the same elements.
Spread(from, fresh) == fresh

ConfigRefs == [rows |-> Spread(PivotRefs.rows, "config.rows"),
               columns |-> Spread(PivotRefs.columns, "config.columns"),
               measures |-> Spread(PivotRefs.measures, "config.measures"),
               filters |-> Spread(PivotRefs.filters, "config.filters")]

Deref(heap, refs) ==
    [rows |-> heap[refs.rows], columns |-> heap[refs.columns],
     measures |-> heap[refs.measures], filters |-> heap[refs.filters]]

HeapOf(base) ==
    [r \in {PivotRefs.rows, "config.rows"} |-> base.rows]
       @@ [r \in {PivotRefs.columns, "config.columns"} |-> base.columns]
       @@ [r \in {PivotRefs.measures, "config.measures"} |-> base.measures]
       @@ [r \in {PivotRefs.filters, "config.filters"} |-> base.filters]

\* One loop iteration: splice and push act on the arrays config refers to.
WriteKey(heap, key, metadata) ==
    LET out == ApplyKey(Deref(heap, ConfigRefs), key, metadata)
    IN [r \in DOMAIN heap |->
           IF r = ConfigRefs.rows THEN out.rows
           ELSE IF r = ConfigRefs.columns THEN out.columns
           ELSE IF r = ConfigRefs.filters THEN out.filters
           ELSE heap[r]]

RECURSIVE WriteKeys(_, _, _, _)
WriteKeys(heap, keys, i, metadata) ==
    IF i > Len(keys) THEN heap
    ELSE WriteKeys(WriteKey(heap, keys[i], metadata), keys, i + 1, metadata)

buildDrillDownConfigCall(base, keys, metadata) ==
    LET heap == WriteKeys(HeapOf(base), keys, 1, metadata)
    IN [returned |-> Deref(heap, ConfigRefs),
        pivotConfig |-> Deref(heap, PivotRefs),
        expandedItems |-> keys]

----------------------------------------------------------------------------
(* The inputs the callers supply. *)

Field(dimension, level) == [dimension |-> S(dimension), level |-> S(level)]

\* The fields and measures the field list offers: those of the loaded metadata.
FieldChoices ==
    IF cubeMetadata = Null THEN {}
    ELSE LET dims == cubeMetadata[1].dimensions
         IN {[dimension |-> dims[d].name, level |-> dims[d].levels[l].name] :
                <<d, l>> \in {p \in (1..Len(dims)) \X (1..3) : p[2] <= Len(dims[p[1]].levels)}}

MeasureChoices ==
    IF cubeMetadata = Null THEN {}
    ELSE {cubeMetadata[1].measures[i] : i \in 1..Len(cubeMetadata[1].measures)}

FilterChoices ==
    {[dimension |-> S("Date"), level |-> S("Year"), operator |-> "=",
      values |-> <<Str(S("2024"))>>]}

\* The header cells a drill-down is called for: (dimensionName, currentLevel, value).
ToggleArgs ==
    {<<S("Date"), S("Year"), Num(S("2024"))>>,
     <<S("Date"), S("Quarter"), Str(S("Q1"))>>,
     <<S("Date"), S("Month"), Str(S("Jan"))>>,
     <<S("Date"), S("Week"), Str(S("W1"))>>,
     <<S("Geo"), S("Country"), Str(S("KR"))>>,
     <<S("Date"), S("Year"), Str(<<"10", "30">>)>>,
     <<S("Date"), <<"Year", "10">>, Str(S("30"))>>}

----------------------------------------------------------------------------
(* API requests and responses. *)

Request(api, cubeName, query) == [api |-> api, cubeName |-> cubeName, query |-> query]

NoQuery == [cube_name |-> "", rows |-> <<>>, columns |-> <<>>, measures |-> <<>>,
            filters |-> <<>>]

\* query = { cube_name: currentCube.value, ...config }
QueryOf(cubeName, config) ==
    [cube_name |-> cubeName, rows |-> config.rows, columns |-> config.columns,
     measures |-> config.measures, filters |-> config.filters]

\* What the server answers to a pivot query or a preview: the SQL compiled
\* from the query, or a result that carries an error.
\* generatedSQL is '' until a response sets it; the SQL text of a response is
\* identified by the query it was compiled from.
NoSQL == <<>>
OkResult(query) == [sql |-> Some(query), error |-> Null]
ErrorResult == [sql |-> NoSQL, error |-> Some("query failed")]

\* e.response?.data?.detail || e.message
RequestFailed == "request failed"

EmptyPivotConfig == [rows |-> <<>>, columns |-> <<>>, measures |-> <<>>, filters |-> <<>>]

\* The pipeline between two requests.
IdlePipeline ==
    [pc |-> "idle", ran |-> <<>>, completion |-> Null, statement |-> Null,
     validated |-> Null, executed |-> <<>>, completions |-> 0, result |-> Null,
     http |-> Null]

\* The registry of a server that has parsed no schema yet.
\* entries holds, for each cube name, Null or a reference to a snapshot;
\* snapshots holds the Cube values references point to.
EmptyRegistry == [entries |-> [c \in CubeNames |-> Null], snapshots |-> <<>>]

NoRegistryOps == [parse |-> Null, read |-> Null]

\* The state of the server's query compiler.
compilerVars == <<compileLog>>

\* No cube asked for yet, and no drill toggle yet.
NoCalls ==
    [selected |-> Null, edited |-> TRUE, chosen |-> {}, failed |-> FALSE,
     rejected |-> Null, submitted |-> 0, added |-> 0]

----------------------------------------------------------------------------
(* The state after construction. *)

Init ==
    /\ cubes = <<>>
    /\ currentCube = Null
    /\ cubeMetadata = Null
    /\ loading = FALSE
    /\ error = Null
    /\ pivotConfig = EmptyPivotConfig
    /\ expandedItems = <<>>
    /\ queryResult = Null
    /\ generatedSQL = NoSQL
    /\ inflight = <<>>
    /\ lastOp = [op |-> "init", key |-> <<>>, before |-> <<>>, second |-> FALSE]
    /\ queryHistory = <<>>
    /\ nl2sql = IdlePipeline
    /\ registry = EmptyRegistry
    /\ registryOps = NoRegistryOps
    /\ issued = 0
    /\ compileLog = <<>>
    /\ calls = NoCalls
    /\ rendered = <<>>

----------------------------------------------------------------------------
(* Synchronous store operations on the pivot configuration. *)

FieldCount == Len(pivotConfig.rows) + Len(pivotConfig.columns)
ExtraCount == Len(pivotConfig.measures) + Len(pivotConfig.filters)

resetPivotConfig ==
    /\ pivotConfig' = EmptyPivotConfig
    /\ expandedItems' = <<>>
    /\ queryResult' = Null
    /\ generatedSQL' = NoSQL
    /\ UNCHANGED <<cubes, currentCube, cubeMetadata, loading, error, inflight>>

addToRows(field) ==
    /\ pivotConfig' =
         IF \E i \in 1..Len(pivotConfig.rows) :
                SameField(pivotConfig.rows[i], field.dimension, field.level)
         THEN pivotConfig
         ELSE [pivotConfig EXCEPT !.rows = Append(@, field)]
    /\ UNCHANGED <<cubes, currentCube, cubeMetadata, loading, error, expandedItems,
                   queryResult, generatedSQL, inflight>>

addToColumns(field) ==
    /\ pivotConfig' =
         IF \E i \in 1..Len(pivotConfig.columns) :
                SameField(pivotConfig.columns[i], field.dimension, field.level)
         THEN pivotConfig
         ELSE [pivotConfig EXCEPT !.columns = Append(@, field)]
    /\ UNCHANGED <<cubes, currentCube, cubeMetadata, loading, error, expandedItems,
                   queryResult, generatedSQL, inflight>>

addMeasure(measure) ==
    /\ pivotConfig' =
         IF \E i \in 1..Len(pivotConfig.measures) : pivotConfig.measures[i].name = measure.name
         THEN pivotConfig
         ELSE [pivotConfig EXCEPT !.measures = Append(@, [name |-> measure.name])]
    /\ UNCHANGED <<cubes, currentCube, cubeMetadata, loading, error, expandedItems,
                   queryResult, generatedSQL, inflight>>

removeFromRows(index) ==
    /\ index \in 0..(Len(pivotConfig.rows) - 1)
    /\ pivotConfig' = [pivotConfig EXCEPT !.rows = RemoveAt(@, index + 1)]
    /\ UNCHANGED <<cubes, currentCube, cubeMetadata, loading, error, expandedItems,
                   queryResult, generatedSQL, inflight>>

removeFromColumns(index) ==
    /\ index \in 0..(Len(pivotConfig.columns) - 1)
    /\ pivotConfig' = [pivotConfig EXCEPT !.columns = RemoveAt(@, index + 1)]
    /\ UNCHANGED <<cubes, currentCube, cubeMetadata, loading, error, expandedItems,
                   queryResult, generatedSQL, inflight>>

removeMeasure(index) ==
    /\ index \in 0..(Len(pivotConfig.measures) - 1)
    /\ pivotConfig' = [pivotConfig EXCEPT !.measures = RemoveAt(@, index + 1)]
    /\ UNCHANGED <<cubes, currentCube, cubeMetadata, loading, error, expandedItems,
                   queryResult, generatedSQL, inflight>>

addFilter(filter) ==
    /\ pivotConfig' = [pivotConfig EXCEPT !.filters = Append(@, filter)]
    /\ UNCHANGED <<cubes, currentCube, cubeMetadata, loading, error, expandedItems,
                   queryResult, generatedSQL, inflight>>

removeFilter(index) ==
    /\ index \in 0..(Len(pivotConfig.filters) - 1)
    /\ pivotConfig' = [pivotConfig EXCEPT !.filters = RemoveAt(@, index + 1)]
    /\ UNCHANGED <<cubes, currentCube, cubeMetadata, loading, error, expandedItems,
                   queryResult, generatedSQL, inflight>>

\* The rows and columns drop zones are bound to the store's lists with
\* v-model: a level dropped from the field list is cloned into the list at the
\* drop position.
dropOnRows(field, position) ==
    /\ position \in 0..Len(pivotConfig.rows)
    /\ pivotConfig' = [pivotConfig EXCEPT !.rows = DropAt(@, position, field)]
    /\ UNCHANGED <<cubes, currentCube, cubeMetadata, loading, error, expandedItems,
                   queryResult, generatedSQL, inflight>>

dropOnColumns(field, position) ==
    /\ position \in 0..Len(pivotConfig.columns)
    /\ pivotConfig' = [pivotConfig EXCEPT !.columns = DropAt(@, position, field)]
    /\ UNCHANGED <<cubes, currentCube, cubeMetadata, loading, error, expandedItems,
                   queryResult, generatedSQL, inflight>>

----------------------------------------------------------------------------
(* Drill-down toggles and pivot execution. *)

Without(seq, x) ==
    LET RECURSIVE W(_)
        W(i) == IF i > Len(seq) THEN <<>>
                ELSE (IF seq[i] = x THEN <<>> ELSE <<seq[i]>>) \o W(i + 1)
    IN W(1)

\* A toggle that expands a collapsed key and leaves an expanded key in place.
ToggleNeverCollapses(items, key) ==
    IF Contains(items, key) THEN items ELSE Append(items, key)

\* if (expandedItems[key]) delete expandedItems[key] else expandedItems[key] = true
Toggle(items, key) ==
    IF Contains(items, key) THEN Without(items, key) ELSE Append(items, key)

\* executePivotQueryWithDrillDown up to its await, for the expanded keys the
\* caller has just left in place.
executePivotQueryWithDrillDown(items) ==
    IF currentCube = Null
    THEN /\ error' = Some("No cube selected")
         /\ UNCHANGED <<loading, inflight>>
    ELSE /\ loading' = TRUE
         /\ error' = Null
         /\ inflight' = Append(inflight,
               Request("executePivotQuery", currentCube[1],
                       QueryOf(currentCube[1],
                               EffectiveConfig(pivotConfig, items, cubeMetadata))))

drillDownColumn(dimensionName, currentLevel, value) ==
    LET items == Toggle(expandedItems, KeyOf("col", dimensionName, currentLevel, value))
    IN /\ expandedItems' = items
       /\ executePivotQueryWithDrillDown(items)
       /\ UNCHANGED <<cubes, currentCube, cubeMetadata, pivotConfig, queryResult,
                      generatedSQL>>

drillDownRow(dimensionName, currentLevel, value) ==
    LET items == Toggle(expandedItems, KeyOf("row", dimensionName, currentLevel, value))
    IN /\ expandedItems' = items
       /\ executePivotQueryWithDrillDown(items)
       /\ UNCHANGED <<cubes, currentCube, cubeMetadata, pivotConfig, queryResult,
                      generatedSQL>>

\* PivotTable's computed effectiveConfig: a call of store.buildDrillDownConfig().
effectiveConfig ==
    LET call == buildDrillDownConfigCall(pivotConfig, expandedItems, cubeMetadata)
    IN /\ pivotConfig' = call.pivotConfig
       /\ expandedItems' = call.expandedItems
       /\ UNCHANGED <<cubes, currentCube, cubeMetadata, loading, error, queryResult,
                      generatedSQL, inflight>>

executePivotQuery ==
    /\ expandedItems' = <<>>
    /\ executePivotQueryWithDrillDown(<<>>)
    /\ UNCHANGED <<cubes, currentCube, cubeMetadata, pivotConfig, queryResult,
                   generatedSQL>>

\* A preview that resets the drill-downs as executePivotQuery does.
previewSQLResetting ==
    /\ expandedItems' = <<>>
    /\ IF currentCube = Null
       THEN UNCHANGED inflight
       ELSE /\ inflight' = Append(inflight,
                  Request("previewPivotSQL", currentCube[1],
                          QueryOf(currentCube[1],
                                  EffectiveConfig(pivotConfig, <<>>, cubeMetadata))))
    /\ UNCHANGED <<cubes, currentCube, cubeMetadata, loading, error, pivotConfig,
                   queryResult, generatedSQL>>

\* A preview of the base configuration, without the drill-downs.
previewSQLSendsBase ==
    /\ IF currentCube = Null
       THEN UNCHANGED inflight
       ELSE /\ inflight' = Append(inflight,
                  Request("previewPivotSQL", currentCube[1],
                          QueryOf(currentCube[1], pivotConfig)))
    /\ UNCHANGED <<cubes, currentCube, cubeMetadata, loading, error, pivotConfig,
                   expandedItems, queryResult, generatedSQL>>

previewSQL ==
    /\ IF currentCube = Null
       THEN UNCHANGED inflight
       ELSE /\ inflight' = Append(inflight,
                  Request("previewPivotSQL", currentCube[1],
                          QueryOf(currentCube[1], buildDrillDownConfig)))
    /\ UNCHANGED <<cubes, currentCube, cubeMetadata, loading, error, pivotConfig,
                   expandedItems, queryResult, generatedSQL>>

executeNaturalQueryAsking(question) ==
    /\ IF currentCube = Null
       THEN /\ error' = Some("No cube selected")
            /\ UNCHANGED <<loading, inflight>>
       ELSE /\ loading' = TRUE
            /\ error' = Null
            /\ inflight' = Append(inflight,
                  Request("executeNL2SQL", currentCube[1],
                          [cube_name |-> currentCube[1], question |-> question]))
    /\ UNCHANGED <<cubes, currentCube, cubeMetadata, pivotConfig, expandedItems,
                   queryResult, generatedSQL>>

executeNaturalQuery == executeNaturalQueryAsking("question")

----------------------------------------------------------------------------
(* Cube selection, listing and schema upload up to their first await. *)

selectCube(cubeName) ==
    /\ loading' = TRUE
    /\ error' = Null
    /\ inflight' = Append(inflight, Request("getCubeMetadata", cubeName, NoQuery))
    /\ UNCHANGED <<cubes, currentCube, cubeMetadata, pivotConfig, expandedItems,
                   queryResult, generatedSQL>>

loadCubes ==
    /\ loading' = TRUE
    /\ error' = Null
    /\ inflight' = Append(inflight, Request("getCubes", "", NoQuery))
    /\ UNCHANGED <<cubes, currentCube, cubeMetadata, pivotConfig, expandedItems,
                   queryResult, generatedSQL>>

uploadSchema ==
    /\ loading' = TRUE
    /\ error' = Null
    /\ inflight' = Append(inflight, Request("uploadSchema", "", NoQuery))
    /\ UNCHANGED <<cubes, currentCube, cubeMetadata, pivotConfig, expandedItems,
                   queryResult, generatedSQL>>

uploadSchemaText ==
    /\ loading' = TRUE
    /\ error' = Null
    /\ inflight' = Append(inflight, Request("uploadSchemaText", "", NoQuery))
    /\ UNCHANGED <<cubes, currentCube, cubeMetadata, pivotConfig, expandedItems,
                   queryResult, generatedSQL>>

----------------------------------------------------------------------------
(* The continuations that run when an API response arrives.  A response to    *)
(* request i of inflight resumes the awaiting function; the functions that    *)
(* await it in turn (loadCubes awaiting selectCube, uploadSchema awaiting     *)
(* loadCubes) resume in the same step.                                        *)

\* What api.getCubes() can answer in response.cubes.
CubeLists == {<<>>, <<"Sales", "Ops">>}

Awaits(i, api) == i \in 1..Len(inflight) /\ inflight[i].api = api

\* A selection that keeps the pivot configuration of the cube shown before.
selectCubeKeepsConfig(i, metadata) ==
    /\ Awaits(i, "getCubeMetadata")
    /\ currentCube' = Some(inflight[i].cubeName)
    /\ cubeMetadata' = Some(metadata)
    /\ loading' = FALSE
    /\ inflight' = RemoveAt(inflight, i)
    /\ UNCHANGED <<cubes, error, pivotConfig, expandedItems, queryResult, generatedSQL>>

\* selectCube after api.getCubeMetadata(cubeName) returned this metadata.
selectCubeAnswered(i, metadata) ==
    /\ Awaits(i, "getCubeMetadata")
    /\ currentCube' = Some(inflight[i].cubeName)
    /\ cubeMetadata' = Some(metadata)
    /\ pivotConfig' = EmptyPivotConfig
    /\ expandedItems' = <<>>
    /\ queryResult' = Null
    /\ generatedSQL' = NoSQL
    /\ loading' = FALSE
    /\ inflight' = RemoveAt(inflight, i)
    /\ UNCHANGED <<cubes, error>>

\* selectCube after api.getCubeMetadata(cubeName) returned.
selectCubeResolved(i) ==
    /\ Awaits(i, "getCubeMetadata")
    /\ selectCubeAnswered(i, MetadataOf(inflight[i].cubeName))

\* A catch block that deselects the cube.
selectCubeRejectedDeselects(i) ==
    /\ Awaits(i, "getCubeMetadata")
    /\ currentCube' = Null
    /\ cubeMetadata' = Null
    /\ error' = Some(RequestFailed)
    /\ loading' = FALSE
    /\ inflight' = RemoveAt(inflight, i)
    /\ UNCHANGED <<cubes, pivotConfig, expandedItems, queryResult, generatedSQL>>

\* selectCube after api.getCubeMetadata(cubeName) threw.
selectCubeRejected(i) ==
    /\ Awaits(i, "getCubeMetadata")
    /\ error' = Some(RequestFailed)
    /\ loading' = FALSE
    /\ inflight' = RemoveAt(inflight, i)
    /\ UNCHANGED <<cubes, currentCube, cubeMetadata, pivotConfig, expandedItems,
                   queryResult, generatedSQL>>

\* loadCubes after api.getCubes() returned: auto-selects the first cube when
\* none is selected, which runs selectCube up to its await.
loadCubesResolved(i, list) ==
    /\ Awaits(i, "getCubes")
    /\ cubes' = list
    /\ IF Len(list) > 0 /\ currentCube = Null
       THEN /\ loading' = TRUE
            /\ error' = Null
            /\ inflight' = Append(RemoveAt(inflight, i),
                                  Request("getCubeMetadata", list[1], NoQuery))
       ELSE /\ loading' = FALSE
            /\ inflight' = RemoveAt(inflight, i)
            /\ UNCHANGED error
    /\ UNCHANGED <<currentCube, cubeMetadata, pivotConfig, expandedItems, queryResult,
                   generatedSQL>>

loadCubesRejected(i) ==
    /\ Awaits(i, "getCubes")
    /\ error' = Some(RequestFailed)
    /\ loading' = FALSE
    /\ inflight' = RemoveAt(inflight, i)
    /\ UNCHANGED <<cubes, currentCube, cubeMetadata, pivotConfig, expandedItems,
                   queryResult, generatedSQL>>

\* uploadSchema / uploadSchemaText after the upload returned: runs loadCubes
\* up to its await.
uploadSchemaResolved(i) ==
    /\ Awaits(i, "uploadSchema") \/ Awaits(i, "uploadSchemaText")
    /\ loading' = TRUE
    /\ error' = Null
    /\ inflight' = Append(RemoveAt(inflight, i), Request("getCubes", "", NoQuery))
    /\ UNCHANGED <<cubes, currentCube, cubeMetadata, pivotConfig, expandedItems,
                   queryResult, generatedSQL>>

uploadSchemaRejected(i) ==
    /\ Awaits(i, "uploadSchema") \/ Awaits(i, "uploadSchemaText")
    /\ error' = Some(RequestFailed)
    /\ loading' = FALSE
    /\ inflight' = RemoveAt(inflight, i)
    /\ UNCHANGED <<cubes, currentCube, cubeMetadata, pivotConfig, expandedItems,
                   queryResult, generatedSQL>>

\* A continuation that leaves out "if (result.error) error.value = result.error".
queryResolvedDropsError(i, result) ==
    /\ Awaits(i, "executePivotQuery") \/ Awaits(i, "executeNL2SQL")
    /\ queryResult' = Some(result)
    /\ generatedSQL' = result.sql
    /\ loading' = FALSE
    /\ inflight' = RemoveAt(inflight, i)
    /\ UNCHANGED <<cubes, currentCube, cubeMetadata, error, pivotConfig, expandedItems>>

\* executePivotQueryWithDrillDown / executeNaturalQuery after the query returned.
queryResolved(i, result) ==
    /\ Awaits(i, "executePivotQuery") \/ Awaits(i, "executeNL2SQL")
    /\ queryResult' = Some(result)
    /\ generatedSQL' = result.sql
    /\ error' = IF result.error # Null THEN result.error ELSE error
    /\ loading' = FALSE
    /\ inflight' = RemoveAt(inflight, i)
    /\ UNCHANGED <<cubes, currentCube, cubeMetadata, pivotConfig, expandedItems>>

\* A catch block that sends the request again.
queryRejectedRetries(i) ==
    /\ Awaits(i, "executePivotQuery") \/ Awaits(i, "executeNL2SQL")
    /\ inflight' = Append(RemoveAt(inflight, i), inflight[i])
    /\ UNCHANGED <<cubes, currentCube, cubeMetadata, loading, error, pivotConfig,
                   expandedItems, queryResult, generatedSQL>>

queryRejected(i) ==
    /\ Awaits(i, "executePivotQuery") \/ Awaits(i, "executeNL2SQL")
    /\ error' = Some(RequestFailed)
    /\ loading' = FALSE
    /\ inflight' = RemoveAt(inflight, i)
    /\ UNCHANGED <<cubes, currentCube, cubeMetadata, pivotConfig, expandedItems,
                   queryResult, generatedSQL>>

\* previewSQL after api.previewPivotSQL(query) returned.
previewSQLResolved(i, result) ==
    /\ Awaits(i, "previewPivotSQL")
    /\ generatedSQL' = result.sql
    /\ inflight' = RemoveAt(inflight, i)
    /\ UNCHANGED <<cubes, currentCube, cubeMetadata, loading, error, pivotConfig,
                   expandedItems, queryResult>>

previewSQLRejected(i) ==
    /\ Awaits(i, "previewPivotSQL")
    /\ error' = Some(RequestFailed)
    /\ inflight' = RemoveAt(inflight, i)
    /\ UNCHANGED <<cubes, currentCube, cubeMetadata, loading, pivotConfig,
                   expandedItems, queryResult, generatedSQL>>

----------------------------------------------------------------------------
(* The server's NL2SQL pipeline.  A completion text and an SQL statement are  *)
(* sequences of tokens: words (their letters in lower case, and the letter    *)
(* case they were written in), numbers, white space and code-fence markers.   *)

Word(letters, casing) == [kind |-> "word", letters |-> letters, casing |-> casing]
Up(letters) == Word(letters, "upper")
Lo(letters) == Word(letters, "lower")
Number(n) == [kind |-> "number", value |-> n]
White(text) == [kind |-> "space", text |-> text]
Sp == White("space")
Fence == [kind |-> "fence"]

\* Case-insensitive comparison reads a word without its letter case.
Fold(token) == token.letters

\* The fixed result cap.
ResultCap == 100

WordsOf(tokens) == {Fold(tokens[i]) : i \in {j \in 1..Len(tokens) : tokens[j].kind = "word"}}

Keep(tokens, Kinds) ==
    LET RECURSIVE K(_)
        K(i) == IF i > Len(tokens) THEN <<>>
                ELSE (IF tokens[i].kind \in Kinds THEN <<tokens[i]>> ELSE <<>>) \o K(i + 1)
    IN K(1)

StatementKeywords == {"select", "with", "update", "delete", "alter", "drop", "insert"}

\* SQL extraction: the text without its code-fence markers; a statement when
\* its first word opens an SQL statement.
Unfenced(text) == Keep(text, {"word", "number", "space"})

IsSQLShaped(tokens) ==
    LET words == Keep(tokens, {"word"})
    IN words # <<>> /\ Fold(words[1]) \in StatementKeywords

MutatingKeywords == {"update", "delete", "alter", "drop", "insert", "truncate", "grant"}

SQLKeywords == {"select", "from", "where", "group", "by", "limit", "table", "into", "set"}

\* The tables and columns of the cube metadata.
Whitelist == {"fact_sales", "dim_date", "year", "quarter", "month", "sales_amount"}

\* The blocklist matched against words written in upper case only.
HasMutatingKeywordUpperOnly(statement) ==
    \E i \in 1..Len(statement) :
       /\ statement[i].kind = "word"
       /\ statement[i].casing = "upper"
       /\ Fold(statement[i]) \in MutatingKeywords

HasMutatingKeyword(statement) == WordsOf(statement) \cap MutatingKeywords # {}

ReferencesOf(statement) == WordsOf(statement) \ (SQLKeywords \cup MutatingKeywords)

\* The positions of the number of a LIMIT clause.
LimitPositions(statement) ==
    {i \in 3..Len(statement) :
        /\ statement[i].kind = "number"
        /\ statement[i - 1].kind = "space"
        /\ statement[i - 2].kind = "word"
        /\ Fold(statement[i - 2]) = "limit"}

\* LIMIT forced to the cap, whatever the statement asks for.
WithLimitAlwaysCap(statement) ==
    IF LimitPositions(statement) = {}
    THEN statement \o <<Sp, Up("limit"), Sp, Number(ResultCap)>>
    ELSE [i \in 1..Len(statement) |->
             IF i \in LimitPositions(statement) THEN Number(ResultCap) ELSE statement[i]]

\* LIMIT injection and clamping.
WithLimit(statement) ==
    IF LimitPositions(statement) = {}
    THEN statement \o <<Sp, Up("limit"), Sp, Number(ResultCap)>>
    ELSE [i \in 1..Len(statement) |->
             IF i \in LimitPositions(statement) /\ statement[i].value > ResultCap
             THEN Number(ResultCap)
             ELSE statement[i]]

\* UnsafeQueryError carrying the rule that triggered.
UnsafeQueryError(rule) ==
    IF rule = "mutating keyword" THEN "UnsafeQueryError: mutating keyword"
    ELSE "UnsafeQueryError: not in whitelist"

\* Validation without the whitelist rule.
ValidateNoWhitelist(statement) ==
    IF HasMutatingKeyword(statement)
    THEN [ok |-> FALSE, error |-> UnsafeQueryError("mutating keyword")]
    ELSE [ok |-> TRUE, statement |-> WithLimit(statement)]

\* Validation / sanitization: the rule violated, or the statement to execute.
Validate(statement) ==
    IF HasMutatingKeyword(statement)
    THEN [ok |-> FALSE, error |-> UnsafeQueryError("mutating keyword")]
    ELSE IF ~(ReferencesOf(statement) \subseteq Whitelist)
    THEN [ok |-> FALSE, error |-> UnsafeQueryError("not in whitelist")]
    ELSE [ok |-> TRUE, statement |-> WithLimit(statement)]

\* The pipeline's errors as the response reports them.
Failure(kind) == [sql |-> NoSQL, error |-> Some(kind)]

StageOrder == <<"summarization", "prompt assembly", "completion", "extraction",
                "validation", "execution">>

Ran(stage) == Append(nl2sql.ran, stage)

NLRequests == {i \in 1..Len(inflight) : inflight[i].api = "executeNL2SQL"}

storeVars == <<cubes, currentCube, cubeMetadata, loading, error, pivotConfig,
               expandedItems, queryResult, generatedSQL, inflight, lastOp>>

\* The server starts on a request it has received.
receiveQuestion ==
    /\ nl2sql.pc = "idle"
    /\ NLRequests # {}
    /\ nl2sql' = [IdlePipeline EXCEPT !.pc = "summarization"]

summarize ==
    /\ nl2sql.pc = "summarization"
    /\ nl2sql' = [nl2sql EXCEPT !.ran = Ran("summarization"), !.pc = "prompt assembly"]

assemblePrompt ==
    /\ nl2sql.pc = "prompt assembly"
    /\ nl2sql' = [nl2sql EXCEPT !.ran = Ran("prompt assembly"), !.pc = "completion"]

\* complete(prompt) -> text
complete(text) ==
    /\ nl2sql.pc = "completion"
    /\ nl2sql' = [nl2sql EXCEPT !.ran = Ran("completion"),
                                !.completions = @ + 1,
                                !.completion = Some(text),
                                !.pc = "extraction"]

\* The provider fails: LLMError, at once.
completeFails ==
    /\ nl2sql.pc = "completion"
    /\ nl2sql' = [nl2sql EXCEPT !.ran = Ran("completion"),
                                !.completions = @ + 1,
                                !.result = Some(Failure("LLMError")),
                                !.pc = "respond"]

extract ==
    /\ nl2sql.pc = "extraction"
    /\ LET tokens == Unfenced(nl2sql.completion[1])
       IN nl2sql' = IF IsSQLShaped(tokens)
                    THEN [nl2sql EXCEPT !.ran = Ran("extraction"),
                                        !.statement = Some(tokens),
                                        !.pc = "validation"]
                    ELSE [nl2sql EXCEPT !.ran = Ran("extraction"),
                                        !.result = Some(Failure("ExtractionError")),
                                        !.pc = "respond"]

\* A validation stage that hands a rejected statement on to execution.
validateFallsBack ==
    /\ nl2sql.pc = "validation"
    /\ LET outcome == Validate(nl2sql.statement[1])
       IN nl2sql' = [nl2sql EXCEPT !.ran = Ran("validation"),
                                   !.validated = IF outcome.ok THEN Some(outcome.statement)
                                                 ELSE nl2sql.statement,
                                   !.pc = "execution"]

validate ==
    /\ nl2sql.pc = "validation"
    /\ LET outcome == Validate(nl2sql.statement[1])
       IN nl2sql' = IF outcome.ok
                    THEN [nl2sql EXCEPT !.ran = Ran("validation"),
                                        !.validated = Some(outcome.statement),
                                        !.pc = "execution"]
                    ELSE [nl2sql EXCEPT !.ran = Ran("validation"),
                                        !.result = Some([sql |-> nl2sql.statement,
                                                         error |-> Some(outcome.error)]),
                                        !.pc = "respond"]

ExecutionOutcomes == {"rows", "ExecutionTimeout", "ExecutionError"}

\* Bounded execution of the validated statement against the warehouse.
execute(outcome) ==
    /\ nl2sql.pc = "execution"
    /\ nl2sql' = [nl2sql EXCEPT
                    !.ran = Ran("execution"),
                    !.executed = Append(@, nl2sql.validated[1]),
                    !.result = Some([sql |-> nl2sql.validated,
                                     error |-> IF outcome = "rows" THEN Null
                                               ELSE Some(outcome)]),
                    !.pc = "respond"]

----------------------------------------------------------------------------
(* The drill-down state machine: the operations on the pivot configuration,  *)
(* the toggles and the queries they send, and the cube selection that loads  *)
(* the metadata.  lastOp is not recorded here.                               *)

Range(seq) == {seq[i] : i \in 1..Len(seq)}

\* The levels dragged onto the axes.
DrillFields == {Field("Date", "Year"), Field("Date", "Quarter")}

\* The server of this specification: it knows the Sales cube and answers a
\* query with some SQL text or with an error.
DrillResults == {[sql |-> Some("SELECT"), error |-> Null], ErrorResult}

\* The bounds of the model, on the state a step leads to.
Bounded ==
    /\ Len(expandedItems') <= MaxExpanded
    /\ FieldCount' <= MaxFields
    /\ ExtraCount' <= MaxExtras
    /\ Len(inflight') <= MaxInflight

\* The application shows a full-screen overlay while loading is true: in this
\* specification the user acts only once it has cleared.
\* A step of the store: the component and the server stay as they are.
StoreStep ==
    Bounded /\ UNCHANGED <<queryHistory, nl2sql, registry, registryOps, issued, compilerVars, rendered, calls>>

UserStep == ~loading /\ StoreStep /\ UNCHANGED lastOp

ResponseStep == StoreStep /\ UNCHANGED lastOp

\* The column headers drilled into.
ColumnToggleArgs == {<<S("Date"), S("Year"), Num(S("2024"))>>}

Next ==
    \/ resetPivotConfig /\ UserStep
    \/ \E f \in FieldChoices \cap DrillFields : addToRows(f) /\ UserStep
    \/ \E f \in FieldChoices \cap DrillFields : addToColumns(f) /\ UserStep
    \/ \E m \in MeasureChoices : addMeasure(m) /\ UserStep
    \/ \E i \in 0..MaxFields : removeFromRows(i) /\ UserStep
    \/ \E i \in 0..MaxFields : removeFromColumns(i) /\ UserStep
    \/ \E i \in 0..MaxExtras : removeMeasure(i) /\ UserStep
    \/ \E f \in FilterChoices : addFilter(f) /\ UserStep
    \/ \E i \in 0..MaxExtras : removeFilter(i) /\ UserStep
    \/ \E f \in FieldChoices \cap DrillFields, p \in 0..MaxFields : dropOnRows(f, p) /\ UserStep
    \/ \E f \in FieldChoices \cap DrillFields, p \in 0..MaxFields : dropOnColumns(f, p) /\ UserStep
    \/ \E a \in ColumnToggleArgs : drillDownColumn(a[1], a[2], a[3]) /\ UserStep
    \/ \E a \in ToggleArgs : drillDownRow(a[1], a[2], a[3]) /\ UserStep
    \/ executePivotQuery /\ UserStep
    \/ \E c \in Range(cubes) : selectCube(c) /\ UserStep
    \/ loadCubes /\ UserStep
    \/ \E i \in 1..MaxInflight : selectCubeResolved(i) /\ ResponseStep
    \/ \E i \in 1..MaxInflight : loadCubesResolved(i, <<"Sales">>) /\ ResponseStep
    \/ \E i \in 1..MaxInflight, r \in DrillResults : queryResolved(i, r) /\ ResponseStep
    \/ \E i \in 1..MaxInflight : queryRejected(i) /\ ResponseStep

Spec == Init /\ [][Next]_vars

----------------------------------------------------------------------------
(* The store as its callers see it: every operation the store returns, called *)
(* whatever the overlay shows, and every continuation.  lastOp is the history *)
(* of the writes to expandedItems: the toggle or reset that ran last, the     *)
(* expanded keys before it, and for a toggle its key and whether it is the    *)
(* second of two consecutive calls with the same arguments.  Any other call,  *)
(* and any continuation but the one of a pivot query, ends the history.       *)

OpsFields == {Field("Date", "Year")}

\* The row headers toggled.
OpsToggleArgs ==
    {<<S("Date"), S("Year"), Num(S("2024"))>>,
     <<S("Date"), S("Year"), Str(<<"10", "30">>)>>}

OpsResults == {[sql |-> Some("SELECT"), error |-> Null]}

NoToggle == [op |-> "init", key |-> <<>>, before |-> <<>>, second |-> FALSE]

Toggled(op, key) ==
    LET second == lastOp.op = op /\ lastOp.key = key /\ ~lastOp.second
    IN lastOp' = [op |-> op, key |-> key,
                  before |-> IF second THEN lastOp.before ELSE expandedItems,
                  second |-> second]

Resets(op) ==
    /\ StoreStep
    /\ lastOp' = [op |-> op, key |-> <<>>, before |-> expandedItems, second |-> FALSE]

\* A call that is neither a toggle nor a reset and that the history names.
Called(op) ==
    /\ StoreStep
    /\ lastOp' = [op |-> op, key |-> <<>>, before |-> expandedItems, second |-> FALSE]

OpsStep == StoreStep /\ lastOp' = NoToggle

QueryStep == StoreStep /\ UNCHANGED lastOp

NextOps ==
    \/ resetPivotConfig /\ Resets("resetPivotConfig")
    \/ \E f \in OpsFields : addToRows(f) /\ OpsStep
    \/ \E f \in OpsFields : addToColumns(f) /\ OpsStep
    \/ \E m \in MeasureChoices : addMeasure(m) /\ OpsStep
    \/ \E i \in 0..MaxFields : removeFromRows(i) /\ OpsStep
    \/ \E i \in 0..MaxFields : removeFromColumns(i) /\ OpsStep
    \/ \E i \in 0..MaxExtras : removeMeasure(i) /\ OpsStep
    \/ \E f \in FilterChoices : addFilter(f) /\ OpsStep
    \/ \E i \in 0..MaxExtras : removeFilter(i) /\ OpsStep
    \/ \E a \in ColumnToggleArgs :
          /\ drillDownColumn(a[1], a[2], a[3])
          /\ StoreStep
          /\ Toggled("drillDownColumn", KeyOf("col", a[1], a[2], a[3]))
    \/ \E a \in OpsToggleArgs :
          /\ drillDownRow(a[1], a[2], a[3])
          /\ StoreStep
          /\ Toggled("drillDownRow", KeyOf("row", a[1], a[2], a[3]))
    \/ executePivotQuery /\ Resets("executePivotQuery")
    \/ effectiveConfig /\ Called("buildDrillDownConfig")
    \/ previewSQL /\ OpsStep
    \/ executeNaturalQuery /\ OpsStep
    \/ \E c \in CubeNames : selectCube(c) /\ OpsStep
    \/ loadCubes /\ OpsStep
    \/ uploadSchema /\ OpsStep
    \/ uploadSchemaText /\ OpsStep
    \/ \E i \in 1..MaxInflight : selectCubeResolved(i) /\ Resets("selectCube")
    \/ \E i \in 1..MaxInflight : selectCubeRejected(i) /\ OpsStep
    \/ \E i \in 1..MaxInflight, list \in CubeLists : loadCubesResolved(i, list) /\ OpsStep
    \/ \E i \in 1..MaxInflight : loadCubesRejected(i) /\ OpsStep
    \/ \E i \in 1..MaxInflight : uploadSchemaResolved(i) /\ OpsStep
    \/ \E i \in 1..MaxInflight : uploadSchemaRejected(i) /\ OpsStep
    \/ \E i \in 1..MaxInflight, r \in OpsResults : queryResolved(i, r) /\ QueryStep
    \/ \E i \in 1..MaxInflight : queryRejected(i) /\ QueryStep
    \/ \E i \in 1..MaxInflight, r \in OpsResults : previewSQLResolved(i, r) /\ OpsStep
    \/ \E i \in 1..MaxInflight : previewSQLRejected(i) /\ OpsStep

SpecOps == Init /\ [][NextOps]_vars

----------------------------------------------------------------------------
(* The natural-language front door: NaturalQuery.vue submits a question with  *)
(* store.executeNaturalQuery, the server runs its pipeline on the request and *)
(* the response resumes the store action and then the component.              *)

\* Keep only last 10 queries
HistoryLimit == 10

\* Entries of queryHistory in the model: no question is asked beyond it.
MaxHistory == 1

\* submitQuestion up to its await; with no cube selected the store action
\* returns undefined and the component's catch swallows the TypeError.
submitQuestion == executeNaturalQuery

\* timestamp: new Date(), read as the number of questions submitted so far.
HistoryEntry(question, result) ==
    [question |-> question, sql |-> result.sql, success |-> result.error = Null,
     timestamp |-> calls.submitted]

\* A history that is never shortened.
UnshiftKeepsAll(history, entry) == <<entry>> \o history

Unshift(history, entry) ==
    LET longer == <<entry>> \o history
    IN IF Len(longer) > HistoryLimit THEN SubSeq(longer, 1, Len(longer) - 1) ELSE longer

\* The response arrives: executeNaturalQuery resumes and returns the result,
\* then submitQuestion adds its history entry.
submitQuestionResolved(i, result) ==
    /\ Awaits(i, "executeNL2SQL")
    /\ queryResolved(i, result)
    /\ queryHistory' = Unshift(queryHistory, HistoryEntry(inflight[i].query.question, result))

\* The request fails: executeNaturalQuery rethrows and submitQuestion logs.
submitQuestionRejected(i) ==
    /\ Awaits(i, "executeNL2SQL")
    /\ queryRejected(i)
    /\ UNCHANGED queryHistory

WhiteSpace == {White("space"), White("newline")}

Casings == {"upper", "lower", "mixed"}

Select == <<Up("select"), Sp, Lo("year"), Sp, Up("from"), Sp, Lo("dim_date")>>

Limited(n) == Select \o <<Sp, Up("limit"), Sp, Number(n)>>

\* The statements of the mutation blocklist in any letter case, wrapped in
\* white space.
Mutations ==
    {<<w, Word(k, c), Sp, Lo("fact_sales"), w>> :
        w \in WhiteSpace, k \in {"update", "delete", "drop", "alter", "insert"},
        c \in Casings}

\* The texts the completion provider answers with.
Completions ==
    {<<Fence>> \o Select \o <<Fence>>,
     Limited(50), Limited(ResultCap), Limited(5000),
     <<Fence, Up("drop"), Sp, Up("table"), Sp, Lo("fact_sales"), Fence>>,
     Select \o <<White("newline"), Lo("delete"), Sp, Lo("from"), Sp, Lo("fact_sales")>>,
     <<Lo("select"), Sp, Lo("year"), Sp, Lo("from"), Sp, Lo("secret_table")>>,
     <<Lo("select"), Sp, Lo("password"), Sp, Lo("from"), Sp, Lo("dim_date")>>,
     <<Lo("sorry"), Sp, Lo("no"), Sp, Lo("answer")>>}
       \cup Mutations

\* The answers of the server to a pivot query: the compiled statement, or an
\* error.
PivotResults == {[sql |-> Some(Limited(ResultCap)), error |-> Null], ErrorResult}

\* A step of the server: the store and the component stay as they are.
ServerStep ==
    UNCHANGED <<storeVars, queryHistory, registry, registryOps, issued, compilerVars, rendered, calls>>

\* The query requests among the requests in flight.
QueryRequestsIn(requests) ==
    Cardinality({i \in 1..Len(requests) :
                    requests[i].api \in {"executePivotQuery", "executeNL2SQL"}})

\* The call of a query action by the user: the requests it sends are counted
\* from zero.
CallStep ==
    /\ ~loading
    /\ Bounded
    /\ issued' = QueryRequestsIn(inflight') - QueryRequestsIn(inflight)
    /\ UNCHANGED <<lastOp, queryHistory, nl2sql, registry, registryOps, compilerVars, rendered, calls>>

\* The requests in flight after the continuation of a query action took its
\* response, counted on top of those the action has sent.
IssuedAfterResponse ==
    issued + QueryRequestsIn(inflight') - (QueryRequestsIn(inflight) - 1)

\* The continuation of a pivot query in the store.
PivotResponseStep ==
    /\ Bounded
    /\ issued' = IssuedAfterResponse
    /\ UNCHANGED <<lastOp, queryHistory, nl2sql, registry, registryOps, compilerVars, rendered, calls>>

\* A step of the component and the store.
ComponentStep ==
    /\ Bounded
    /\ issued' = IssuedAfterResponse
    /\ UNCHANGED <<lastOp, registry, registryOps, compilerVars, rendered, calls>>

NextNL ==
    \/ loadCubes /\ UserStep
    \/ \E i \in 1..MaxInflight : loadCubesResolved(i, <<"Sales">>) /\ ResponseStep
    \/ \E i \in 1..MaxInflight : selectCubeResolved(i) /\ ResponseStep
    \/ submitQuestion /\ Len(queryHistory) < MaxHistory /\ CallStep
    \/ executePivotQuery /\ CallStep
    \/ \E i \in 1..MaxInflight, result \in PivotResults :
          Awaits(i, "executePivotQuery") /\ queryResolved(i, result) /\ PivotResponseStep
    \/ \E i \in 1..MaxInflight :
          Awaits(i, "executePivotQuery") /\ queryRejected(i) /\ PivotResponseStep
    \/ receiveQuestion /\ ServerStep
    \/ summarize /\ ServerStep
    \/ assemblePrompt /\ ServerStep
    \/ \E text \in Completions : complete(text) /\ ServerStep
    \/ completeFails /\ ServerStep
    \/ extract /\ ServerStep
    \/ validate /\ ServerStep
    \/ \E outcome \in ExecutionOutcomes : execute(outcome) /\ ServerStep
    \/ \E i \in 1..MaxInflight :
          /\ nl2sql.pc = "respond"
          /\ submitQuestionResolved(i, nl2sql.result[1])
          /\ nl2sql' = [nl2sql EXCEPT !.pc = "idle", !.http = Some("response")]
          /\ ComponentStep
    \/ \E i \in 1..MaxInflight :
          /\ nl2sql.pc = "respond"
          /\ submitQuestionRejected(i)
          /\ nl2sql' = [nl2sql EXCEPT !.pc = "idle", !.http = Some("failure")]
          /\ ComponentStep

SpecNL == Init /\ [][NextNL]_vars

----------------------------------------------------------------------------
(* The server's schema parser and cube metadata registry.  A schema document *)
(* declares one cube; parse builds the Cube value or fails with SchemaError, *)
(* and on success the registry entry of the cube's name is swapped to a new   *)
(* snapshot.  A reader takes the entry's reference and then reads the fields  *)
(* of the cube one at a time, while a parse-and-register may be under way.    *)

MaxSnapshots == 3

Aggregators == {"sum", "count", "avg", "min", "max", "distinct-count"}

SchemaError == "SchemaError"

SchemaDocument(name, fact, dimensions, measures) ==
    [wellFormed |-> TRUE, name |-> name, fact |-> fact,
     dimensions |-> dimensions, measures |-> measures]

DateDimension == [name |-> "Date", levels |-> <<"Year", "Quarter", "Month", "Day">>]

SalesDocument ==
    SchemaDocument("Sales", Some("fact_sales"), <<DateDimension>>,
                   <<[name |-> "SalesAmount", aggregator |-> "sum"]>>)

\* A later version of the Sales cube: every field but the name differs.
SalesDocumentV2 ==
    SchemaDocument("Sales", Some("fact_sales_v2"),
                   <<[name |-> "Date", levels |-> <<"Year", "Month">>],
                     [name |-> "Product", levels |-> <<"Category">>]>>,
                   <<[name |-> "Quantity", aggregator |-> "count"]>>)

OpsDocument ==
    SchemaDocument("Ops", Some("fact_process_instance"),
                   <<[name |-> "Date", levels |-> <<"Year">>]>>,
                   <<[name |-> "Duration", aggregator |-> "avg"]>>)

\* Documents the parser refuses: not well-formed, no fact table, a hierarchy
\* without levels, an aggregator outside the closed set, a name used twice.
BadDocuments ==
    {[SalesDocumentV2 EXCEPT !.wellFormed = FALSE],
     [SalesDocumentV2 EXCEPT !.fact = Null],
     [SalesDocumentV2 EXCEPT !.dimensions = <<[name |-> "Date", levels |-> <<>>]>>],
     [SalesDocumentV2 EXCEPT !.measures = <<[name |-> "Quantity", aggregator |-> "median"]>>],
     [SalesDocumentV2 EXCEPT !.measures = <<[name |-> "Quantity", aggregator |-> "sum"],
                                            [name |-> "Quantity", aggregator |-> "count"]>>]}

Documents == {SalesDocument, SalesDocumentV2, OpsDocument} \cup BadDocuments

HasDuplicates(names) ==
    \E i, j \in 1..Len(names) : i < j /\ names[i] = names[j]

IsSchemaError(document) ==
    \/ ~document.wellFormed
    \/ document.fact = Null
    \/ \E i \in 1..Len(document.dimensions) : document.dimensions[i].levels = <<>>
    \/ \E i \in 1..Len(document.measures) :
          document.measures[i].aggregator \notin Aggregators
    \/ HasDuplicates([i \in 1..Len(document.dimensions) |-> document.dimensions[i].name])
    \/ \E i \in 1..Len(document.dimensions) : HasDuplicates(document.dimensions[i].levels)
    \/ HasDuplicates([i \in 1..Len(document.measures) |-> document.measures[i].name])

\* parse(schemaDocument) -> Cube | SchemaError
parse(document) ==
    IF IsSchemaError(document) THEN SchemaError
    ELSE [name |-> document.name, fact |-> document.fact[1],
          dimensions |-> document.dimensions, measures |-> document.measures]

\* The fields of a Cube in the order a reader reads them.
CubeFields == <<"name", "fact", "dimensions", "measures">>

NothingSeen == [f \in Range(CubeFields) |-> Null]

\* A schema document arrives: the parser starts on it.
parseBegin(document) ==
    /\ IF registryOps.parse = Null THEN TRUE
       ELSE registryOps.parse[1].pc \in {"registered", SchemaError}
    /\ registryOps' = [registryOps EXCEPT
                          !.parse = Some([document |-> document, cube |-> Null,
                                          pc |-> "parsing"])]
    /\ UNCHANGED registry

\* The document is refused: nothing is registered.
parseFails ==
    /\ registryOps.parse # Null
    /\ registryOps.parse[1].pc = "parsing"
    /\ IsSchemaError(registryOps.parse[1].document)
    /\ registryOps' = [registryOps EXCEPT !.parse[1].pc = SchemaError]
    /\ UNCHANGED registry

\* The parser has built the whole Cube value, not yet in the registry.
parseBuilds ==
    /\ registryOps.parse # Null
    /\ registryOps.parse[1].pc = "parsing"
    /\ ~IsSchemaError(registryOps.parse[1].document)
    /\ registryOps' = [registryOps EXCEPT
                          !.parse[1].cube = Some(parse(registryOps.parse[1].document)),
                          !.parse[1].pc = "built"]
    /\ UNCHANGED registry

\* A registration that overwrites the fields of the cube readers hold.
registerInPlace ==
    /\ registryOps.parse # Null
    /\ registryOps.parse[1].pc = "built"
    /\ LET cube == registryOps.parse[1].cube[1]
           entry == registry.entries[cube.name]
       IN registry' =
             IF entry = Null
             THEN [entries |-> [registry.entries EXCEPT
                                   ![cube.name] = Some(Len(registry.snapshots) + 1)],
                   snapshots |-> Append(registry.snapshots, cube)]
             ELSE [registry EXCEPT !.snapshots[entry[1]] = cube]
    /\ registryOps' = [registryOps EXCEPT !.parse[1].pc = "registered"]

\* Registers / overwrites the Cube under its name: the entry is swapped to a
\* new snapshot, the snapshots readers hold are left as they are.
register ==
    /\ registryOps.parse # Null
    /\ registryOps.parse[1].pc = "built"
    /\ LET cube == registryOps.parse[1].cube[1]
       IN registry' =
             [entries |-> [registry.entries EXCEPT
                              ![cube.name] = Some(Len(registry.snapshots) + 1)],
              snapshots |-> Append(registry.snapshots, cube)]
    /\ registryOps' = [registryOps EXCEPT !.parse[1].pc = "registered"]

\* get(cubeName) -> Cube | NotFound: the reader takes the entry.
getBegin(cubeName) ==
    /\ IF registryOps.read = Null THEN TRUE
       ELSE registryOps.read[1].pc \in {"done", "NotFound"}
    /\ registryOps' = [registryOps EXCEPT
                          !.read = Some([name |-> cubeName,
                                         ref |-> registry.entries[cubeName],
                                         seen |-> NothingSeen,
                                         pc |-> IF registry.entries[cubeName] = Null
                                                THEN "NotFound" ELSE "reading"])]
    /\ UNCHANGED registry

\* The reader reads the next field of the cube it holds.
getField ==
    /\ registryOps.read # Null
    /\ registryOps.read[1].pc = "reading"
    /\ LET read == registryOps.read[1]
           unread == {i \in 1..Len(CubeFields) : read.seen[CubeFields[i]] = Null}
           next == CHOOSE i \in unread : \A j \in unread : i <= j
           field == CubeFields[next]
       IN registryOps' = [registryOps EXCEPT
             !.read[1].seen[field] = Some(registry.snapshots[read.ref[1]][field]),
             !.read[1].pc = IF unread = {next} THEN "done" ELSE "reading"]
    /\ UNCHANGED registry

\* A step of the registry: the store, the component and the pipeline stay as
\* they are.
RegistryStep ==
    /\ Len(registry'.snapshots) <= MaxSnapshots
    /\ UNCHANGED <<storeVars, queryHistory, nl2sql, issued, compilerVars, rendered, calls>>

NextRegistry ==
    \/ \E document \in Documents : parseBegin(document) /\ RegistryStep
    \/ parseFails /\ RegistryStep
    \/ parseBuilds /\ RegistryStep
    \/ register /\ RegistryStep
    \/ \E cubeName \in CubeNames : getBegin(cubeName) /\ RegistryStep
    \/ getField /\ RegistryStep

SpecRegistry == Init /\ [][NextRegistry]_vars

----------------------------------------------------------------------------
(* The server's query compiler: compile(cube, pivotConfig) gives the SQL text *)
(* or a CompileError.  The SQL text is the sequence of its pieces.            *)

MaxCompiles == 2

\* Lower-casing of the names the schema documents use.
Lower(name) ==
    CASE name = "Date" -> "date"
      [] name = "Product" -> "product"
      [] name = "Year" -> "year"
      [] name = "Quarter" -> "quarter"
      [] name = "Month" -> "month"
      [] name = "Day" -> "day"
      [] name = "Category" -> "category"
      [] name = "SalesAmount" -> "salesamount"
      [] name = "Quantity" -> "quantity"
      [] name = "Duration" -> "duration"
      [] OTHER -> name

CompileError(kind) == [error |-> Some(kind), sql |-> <<>>, columns |-> <<>>]

CompiledQuery(sql, columns) == [error |-> Null, sql |-> sql, columns |-> columns]

DimensionsNamed(cube, dimension) ==
    {i \in 1..Len(cube.dimensions) : cube.dimensions[i].name = dimension}

MeasuresNamed(cube, measure) ==
    {i \in 1..Len(cube.measures) : cube.measures[i].name = measure}

\* A (dimension, level) resolves against the cube.
ResolvesLevel(cube, field) ==
    \E i \in DimensionsNamed(cube, field.dimension) :
       field.level \in Range(cube.dimensions[i].levels)

ResolvesMeasure(cube, measure) == MeasuresNamed(cube, measure) # {}

\* Step 1: every reference of the configuration resolves.
Resolves(cube, config) ==
    /\ \A i \in 1..Len(config.rows) : ResolvesLevel(cube, config.rows[i])
    /\ \A i \in 1..Len(config.columns) : ResolvesLevel(cube, config.columns[i])
    /\ \A i \in 1..Len(config.filters) : ResolvesLevel(cube, config.filters[i])
    /\ \A i \in 1..Len(config.measures) : ResolvesMeasure(cube, config.measures[i])

RECURSIVE JoinWith(_, _)
\* The pieces of the parts, with the separator between two parts.
JoinWith(parts, separator) ==
    IF parts = <<>> THEN <<>>
    ELSE IF Len(parts) = 1 THEN parts[1]
    ELSE parts[1] \o <<separator>> \o JoinWith(Tail(parts), separator)

RECURSIVE Decimal(_)
\* The decimal digits of a natural number.
Decimal(n) ==
    LET digit == <<"0", "1", "2", "3", "4", "5", "6", "7", "8", "9">>[(n % 10) + 1]
    IN IF n < 10 THEN <<digit>> ELSE Append(Decimal(n \div 10), digit)

DimensionTable(dimension) == <<"dim_", Lower(dimension)>>

LevelColumn(field) == DimensionTable(field.dimension) \o <<".", Lower(field.level)>>

LevelAlias(field) == <<Lower(field.dimension), "_", Lower(field.level)>>

\* AGG maps 1:1 from the closed aggregator set.
Aggregate(cube, measure) ==
    LET m == cube.measures[CHOOSE i \in MeasuresNamed(cube, measure) : TRUE]
        column == <<cube.fact, ".", Lower(m.name)>>
    IN (IF m.aggregator = "distinct-count"
        THEN <<"COUNT(DISTINCT ">> \o column \o <<")">>
        ELSE <<m.aggregator, "(">> \o column \o <<")">>)
       \o <<" AS ", Lower(m.name)>>

\* The levels on the rows and then on the columns, in the caller's order.
GroupedLevels(config) == config.rows \o config.columns

RECURSIVE FirstMentions(_)
\* The dimensions of a list of references, each at its first mention.
FirstMentions(fields) ==
    IF fields = <<>> THEN <<>>
    ELSE LET before == FirstMentions(SubSeq(fields, 1, Len(fields) - 1))
             dimension == fields[Len(fields)].dimension
         IN IF dimension \in Range(before) THEN before ELSE Append(before, dimension)

\* Step 2: the dimensions referenced by rows, columns and filters.
ReferencedDimensions(config) ==
    FirstMentions(GroupedLevels(config)
                  \o [i \in 1..Len(config.filters) |->
                         [dimension |-> config.filters[i].dimension,
                          level |-> config.filters[i].level]])

InnerJoin(cube, dimension) ==
    <<" INNER JOIN ">> \o DimensionTable(dimension) \o <<" ON ", cube.fact, ".",
      Lower(dimension), "_id", " = ">> \o DimensionTable(dimension) \o <<".id">>

\* Step 5: one clause per filter; several values compile to IN (...).
FilterClause(filter) ==
    LET column == LevelColumn([dimension |-> filter.dimension, level |-> filter.level])
    IN IF Len(filter.values) = 1 /\ filter.operator = "="
       THEN column \o <<" = ", filter.values[1]>>
       ELSE column \o <<" IN (">>
              \o JoinWith([i \in 1..Len(filter.values) |-> <<filter.values[i]>>], ", ")
              \o <<")">>

\* Steps 2 to 7: the text of the statement.
CompiledSQL(cube, config) ==
    LET levels == GroupedLevels(config)
        joined == ReferencedDimensions(config)
        selected ==
            [i \in 1..Len(levels) |-> LevelColumn(levels[i]) \o <<" AS ">> \o LevelAlias(levels[i])]
            \o [i \in 1..Len(config.measures) |-> Aggregate(cube, config.measures[i])]
    IN <<"SELECT ">> \o JoinWith(selected, ", ")
       \o <<" FROM ", cube.fact>>
       \o JoinWith([i \in 1..Len(joined) |-> InnerJoin(cube, joined[i])], "")
       \o (IF config.filters = <<>> THEN <<>>
           ELSE <<" WHERE ">>
                  \o JoinWith([i \in 1..Len(config.filters) |-> FilterClause(config.filters[i])],
                              " AND "))
       \o (IF levels = <<>> THEN <<>>
           ELSE <<" GROUP BY ">>
                  \o JoinWith([i \in 1..Len(levels) |-> LevelColumn(levels[i])], ", "))
       \o <<" LIMIT ">> \o Decimal(ResultCap)

\* A compiler that leaves out the references that do not resolve.
compileOmitsUnknown(cube, config) ==
    LET known == [rows |-> SelectSeq(config.rows, LAMBDA f : ResolvesLevel(cube, f)),
                  columns |-> SelectSeq(config.columns, LAMBDA f : ResolvesLevel(cube, f)),
                  measures |-> SelectSeq(config.measures, LAMBDA m : ResolvesMeasure(cube, m)),
                  filters |-> SelectSeq(config.filters, LAMBDA f : ResolvesLevel(cube, f))]
    IN IF \E i \in 1..Len(known.filters) : known.filters[i].values = <<>>
       THEN CompileError("EmptyFilter")
       ELSE CompiledQuery(CompiledSQL(cube, known),
                          [i \in 1..Len(GroupedLevels(known)) |->
                              LevelAlias(GroupedLevels(known)[i])])

\* A compiler that numbers its statements: the text depends on the calls made
\* before.
compileNumbered(cube, config) ==
    IF ~Resolves(cube, config) THEN CompileError("UnknownField")
    ELSE IF \E i \in 1..Len(config.filters) : config.filters[i].values = <<>>
    THEN CompileError("EmptyFilter")
    ELSE CompiledQuery(<<"/* q">> \o Decimal(Len(compileLog)) \o <<" */ ">> \o CompiledSQL(cube, config),
                       [i \in 1..Len(GroupedLevels(config)) |->
                           LevelAlias(GroupedLevels(config)[i])])

\* compile(cube, pivotConfig) -> CompiledQuery | CompileError
compile(cube, config) ==
    IF ~Resolves(cube, config) THEN CompileError("UnknownField")
    ELSE IF \E i \in 1..Len(config.filters) : config.filters[i].values = <<>>
    THEN CompileError("EmptyFilter")
    ELSE CompiledQuery(CompiledSQL(cube, config),
                       [i \in 1..Len(GroupedLevels(config)) |->
                           LevelAlias(GroupedLevels(config)[i])])

\* The cubes and the configurations the compiler is called with.
CompiledCubes == {parse(SalesDocument), parse(SalesDocumentV2)}

PivotField(dimension, level) == [dimension |-> dimension, level |-> level]

PivotFilter(dimension, level, operator, values) ==
    [dimension |-> dimension, level |-> level, operator |-> operator, values |-> values]

PivotConfig(rows, columns, measures, filters) ==
    [rows |-> rows, columns |-> columns, measures |-> measures, filters |-> filters]

CompiledConfigs ==
    {PivotConfig(<<PivotField("Date", "Year")>>, <<>>, <<"SalesAmount">>, <<>>),
     PivotConfig(<<PivotField("Date", "Year"), PivotField("Date", "Quarter")>>, <<>>,
                 <<"SalesAmount">>, <<PivotFilter("Date", "Year", "=", <<"2024">>)>>),
     PivotConfig(<<PivotField("Date", "Year")>>, <<PivotField("Product", "Category")>>,
                 <<"Quantity">>, <<PivotFilter("Date", "Month", "in", <<"1", "2">>)>>),
     PivotConfig(<<PivotField("Date", "Year")>>, <<>>, <<"NotAMeasure">>, <<>>),
     PivotConfig(<<PivotField("Date", "Week")>>, <<>>, <<"SalesAmount">>, <<>>),
     PivotConfig(<<>>, <<PivotField("Region", "Country")>>, <<"SalesAmount">>, <<>>),
     PivotConfig(<<PivotField("Date", "Year")>>, <<>>, <<"SalesAmount">>,
                 <<PivotFilter("Date", "Decade", "=", <<"2020">>)>>),
     PivotConfig(<<PivotField("Date", "Year")>>, <<>>, <<"SalesAmount">>,
                 <<PivotFilter("Date", "Year", "=", <<>>)>>),
     PivotConfig(<<>>, <<>>, <<>>, <<>>)}

\* The server compiles a configuration for a cube and answers.
compileCall(cube, config) ==
    /\ compileLog' = Append(compileLog,
                            [cube |-> cube, config |-> config, out |-> compile(cube, config)])

\* A step of the compiler: everything else stays as it is.
CompilerStep ==
    /\ Len(compileLog') <= MaxCompiles
    /\ UNCHANGED <<storeVars, queryHistory, nl2sql, registry, registryOps, issued, rendered, calls>>

NextCompile ==
    \E cube \in CompiledCubes, config \in CompiledConfigs :
       compileCall(cube, config) /\ CompilerStep

SpecCompile == Init /\ [][NextCompile]_vars

----------------------------------------------------------------------------
(* The store with overlapping calls.  Nothing paces the callers: an operation *)
(* is called while earlier requests are still in flight, and the responses    *)
(* arrive in any order.  The server keeps the registry: an upload registers   *)
(* the uploaded cube, the cube list and the metadata are read from it, and a  *)
(* pivot query is answered with the SQL of that very query.                   *)

MaxRequests == 2
MaxEntries == 1

\* The documents uploaded, in this order: two cubes, then the first one anew.
UploadedDocuments == <<SalesDocument, OpsDocument, SalesDocumentV2>>

\* The registry after a cube was registered under its name.
Registered(cube) ==
    [entries |-> [registry.entries EXCEPT ![cube.name] = Some(Len(registry.snapshots) + 1)],
     snapshots |-> Append(registry.snapshots, cube)]

\* The cube the registry holds under a name.
RegisteredCube(cubeName) == registry.snapshots[registry.entries[cubeName][1]]

RECURSIVE RegisteredNames(_)
\* GET /cubes: the registered names, each where it was registered first.
RegisteredNames(snapshots) ==
    IF snapshots = <<>> THEN <<>>
    ELSE LET before == RegisteredNames(SubSeq(snapshots, 1, Len(snapshots) - 1))
             name == snapshots[Len(snapshots)].name
         IN IF name \in Range(before) THEN before ELSE Append(before, name)

\* GET /cube/{name}/metadata: the cube as the store reads it.
MetadataOfCube(cube) ==
    [name |-> cube.name,
     dimensions |-> [d \in 1..Len(cube.dimensions) |->
                        [name |-> S(cube.dimensions[d].name),
                         levels |-> [l \in 1..Len(cube.dimensions[d].levels) |->
                                        Level(cube.dimensions[d].levels[l])]]],
     measures |-> [m \in 1..Len(cube.measures) |-> [name |-> cube.measures[m].name]]]

\* The upload returned: the server has registered the document's cube.
uploadSchemaAnswered(i, document) == uploadSchemaResolved(i)

\* The metadata request returned what the registry holds now.
getCubeMetadataAnswered(i) ==
    /\ Awaits(i, "getCubeMetadata")
    /\ registry.entries[inflight[i].cubeName] # Null
    /\ selectCubeAnswered(i, MetadataOfCube(RegisteredCube(inflight[i].cubeName)))

\* What the server answers to the pivot query of request i.
AnswersTo(query) == {OkResult(query), ErrorResult}

\* The header cells of the row and column fields.
RaceFields == {Field("Date", "Year")}
RaceToggleArgs == {<<S("Date"), S("Year"), Num(S("2024"))>>}

\* A header is shown once a result is: of a field of the axis.
HeaderShown(axis, a) ==
    /\ queryResult # Null
    /\ \E k \in 1..Len(axis) : SameField(axis[k], a[1], a[2])

\* The cubes the entries of pivotConfig and expandedItems were chosen under.
ChosenAfter ==
    IF pivotConfig' = EmptyPivotConfig /\ expandedItems' = <<>> THEN {}
    ELSE IF pivotConfig' # pivotConfig \/ expandedItems' # expandedItems
         THEN calls.chosen \cup {currentCube}
         ELSE calls.chosen

RaceBounded ==
    /\ Len(expandedItems') <= MaxExpanded
    /\ FieldCount' + ExtraCount' <= MaxEntries
    /\ Len(inflight') <= MaxRequests

\* The history of the calls before a step that rejects nothing.
Settled == [calls EXCEPT !.rejected = Null]

\* A step of the store and its server within the bounds: the rest stays.
RaceStep(registryAfter, callsAfter) ==
    /\ registry' = registryAfter
    /\ calls' = callsAfter
    /\ RaceBounded
    /\ UNCHANGED <<lastOp, queryHistory, nl2sql, registryOps, issued, compilerVars, rendered>>

\* A call or a continuation that writes neither pivotConfig nor expandedItems.
Quiet == RaceStep(registry, Settled)

\* Any write to pivotConfig or expandedItems that is not a drill toggle.
Edits == RaceStep(registry, [Settled EXCEPT !.edited = TRUE, !.chosen = ChosenAfter])

DrillToggle == RaceStep(registry, [Settled EXCEPT !.edited = FALSE, !.chosen = ChosenAfter])

\* A selectCube call: the cube asked for last.
Selects(cubeName) == RaceStep(registry, [Settled EXCEPT !.selected = Some(cubeName)])

\* The request of a listing, a selection or an upload was rejected.
Fails(api) == RaceStep(registry, [calls EXCEPT !.failed = TRUE, !.rejected = Some(api)])

NextRace ==
    \/ uploadSchema /\ Quiet
    \/ uploadSchemaText /\ Quiet
    \/ loadCubes /\ Quiet
    \/ \E c \in Range(cubes) : selectCube(c) /\ Selects(c)
    \/ \E f \in FieldChoices \cap RaceFields : addToRows(f) /\ Edits
    \/ \E m \in MeasureChoices : addMeasure(m) /\ Edits
    \/ \E a \in RaceToggleArgs :
          /\ \E k \in 1..Len(pivotConfig.rows) : SameField(pivotConfig.rows[k], a[1], a[2])
          /\ drillDownRow(a[1], a[2], a[3])
          /\ DrillToggle
    \/ \E i \in 1..MaxRequests :
          /\ Len(registry.snapshots) < Len(UploadedDocuments)
          /\ uploadSchemaAnswered(i, UploadedDocuments[Len(registry.snapshots) + 1])
          /\ RaceStep(Registered(parse(UploadedDocuments[Len(registry.snapshots) + 1])), Settled)
    \/ \E i \in 1..MaxRequests : uploadSchemaRejected(i) /\ Fails(inflight[i].api)
    \/ \E i \in 1..MaxRequests :
          /\ loadCubesResolved(i, RegisteredNames(registry.snapshots))
          /\ RaceStep(registry, IF Len(inflight') = Len(inflight)
                                 THEN [Settled EXCEPT !.selected = Some(cubes'[1])]
                                 ELSE Settled)
    \/ \E i \in 1..MaxRequests : loadCubesRejected(i) /\ Fails(inflight[i].api)
    \/ \E i \in 1..MaxRequests : getCubeMetadataAnswered(i) /\ Edits
    \/ \E i \in 1..MaxRequests : selectCubeRejected(i) /\ Fails(inflight[i].api)
    \/ \E i \in 1..MaxRequests :
          /\ Awaits(i, "executePivotQuery")
          /\ \E r \in AnswersTo(inflight[i].query) : queryResolved(i, r) /\ Quiet
    \/ \E i \in 1..MaxRequests : queryRejected(i) /\ Quiet

SpecRace == Init /\ [][NextRace]_vars

----------------------------------------------------------------------------
(* Overlapping drill-downs.  The Sales cube is loaded, a level is put on an   *)
(* axis, the query is run, and the headers of the result are toggled while    *)
(* earlier queries are still in flight; the responses arrive in any order.    *)

NextDrill ==
    \/ loadCubes /\ Quiet
    \/ \E i \in 1..MaxRequests : loadCubesResolved(i, <<"Sales">>) /\ Quiet
    \/ \E i \in 1..MaxRequests : selectCubeResolved(i) /\ Edits
    \/ \E f \in FieldChoices \cap RaceFields : addToRows(f) /\ Edits
    \/ \E f \in FieldChoices \cap RaceFields : addToColumns(f) /\ Edits
    \/ executePivotQuery /\ Edits
    \/ \E a \in RaceToggleArgs :
          /\ HeaderShown(pivotConfig.rows, a)
          /\ drillDownRow(a[1], a[2], a[3])
          /\ DrillToggle
    \/ \E a \in RaceToggleArgs :
          /\ HeaderShown(pivotConfig.columns, a)
          /\ drillDownColumn(a[1], a[2], a[3])
          /\ DrillToggle
    \/ \E i \in 1..MaxRequests :
          /\ Awaits(i, "executePivotQuery")
          /\ \E r \in AnswersTo(inflight[i].query) : queryResolved(i, r) /\ Quiet
    \/ \E i \in 1..MaxRequests : queryRejected(i) /\ Quiet

SpecDrill == Init /\ [][NextDrill]_vars

----------------------------------------------------------------------------
(* The question box over time.  A text is a sequence of characters; the user  *)
(* types a text and submits it, one question after the other, and the history *)
(* of calls counts the submissions and the entries added.                     *)

MaxSubmissions == 12

Blank == " "

RECURSIVE TrimStart(_)
TrimStart(text) ==
    IF text # <<>> /\ text[1] = Blank THEN TrimStart(Tail(text)) ELSE text

RECURSIVE TrimEnd(_)
TrimEnd(text) ==
    IF text # <<>> /\ text[Len(text)] = Blank
    THEN TrimEnd(SubSeq(text, 1, Len(text) - 1))
    ELSE text

\* question.value.trim()
Trim(text) == TrimEnd(TrimStart(text))

\* What the user types: white space only, or a padded question.
Questions == {<<Blank, Blank>>, <<Blank, "q", Blank>>}

\* submitQuestion up to its await, for the text in the box.
submitQuestionTyped(text) ==
    IF Trim(text) = <<>>
    THEN UNCHANGED <<cubes, currentCube, cubeMetadata, loading, error, pivotConfig,
                     expandedItems, queryResult, generatedSQL, inflight>>
    ELSE executeNaturalQueryAsking(Trim(text))

\* What the server answers to a question.
QuestionResults == {[sql |-> Some("SELECT"), error |-> Null]}

\* A step of the store in the question box specification.
HistoryStep(callsAfter) ==
    /\ calls' = callsAfter
    /\ calls'.submitted <= MaxSubmissions
    /\ Bounded
    /\ UNCHANGED <<lastOp, registry, registryOps, issued, compilerVars, rendered>>

\* What the HTTP layer delivered last.
Delivered(http) == nl2sql' = [nl2sql EXCEPT !.http = http]

NextHistory ==
    \/ loadCubes /\ HistoryStep(calls) /\ UNCHANGED <<queryHistory, nl2sql>>
    \/ \E i \in 1..MaxInflight :
          /\ loadCubesResolved(i, <<"Sales">>)
          /\ HistoryStep(calls)
          /\ UNCHANGED <<queryHistory, nl2sql>>
    \/ \E i \in 1..MaxInflight :
          /\ selectCubeResolved(i)
          /\ HistoryStep(calls)
          /\ UNCHANGED <<queryHistory, nl2sql>>
    \/ \E text \in Questions :
          /\ submitQuestionTyped(text)
          /\ HistoryStep([calls EXCEPT !.submitted = @ + 1])
          /\ UNCHANGED <<queryHistory, nl2sql>>
    \/ \E i \in 1..MaxInflight, result \in QuestionResults :
          /\ submitQuestionResolved(i, result)
          /\ HistoryStep([calls EXCEPT !.added = @ + 1])
          /\ Delivered(Some("response"))
    \/ \E i \in 1..MaxInflight :
          /\ submitQuestionRejected(i)
          /\ HistoryStep(calls)
          /\ Delivered(Some("failure"))

SpecHistory == Init /\ [][NextHistory]_vars

----------------------------------------------------------------------------
(* The column headers of the pivot table.  A result row gives one value per  *)
(* column level; a value and a path are strings, sequences of characters.    *)
(* rendered is the log of the header computations: the result rows, the       *)
(* number of measures and the headers computed.                               *)

MaxRows == 2
MaxLevels == 2
MaxMeasures == 2
MaxTables == 1

\* The values a column level takes in the result: none of them is null.
HeaderValues == {<<>>, <<"a">>, <<"b">>, <<"a", "|", "b">>}

Bar == "|"

\* localeCompare: punctuation sorts before the letters.
CharRank(c) == CASE c = "|" -> 1 [] c = "a" -> 2 [] c = "b" -> 3 [] OTHER -> 4

RECURSIVE Precedes(_, _)
\* a.localeCompare(b) < 0
Precedes(a, b) ==
    IF b = <<>> THEN FALSE
    ELSE IF a = <<>> THEN TRUE
    ELSE IF a[1] = b[1] THEN Precedes(Tail(a), Tail(b))
    ELSE CharRank(a[1]) < CharRank(b[1])

\* The comparator of the sort: by parent path first, then by value.
HeaderBefore(x, y) ==
    IF x.parentPath # y.parentPath THEN Precedes(x.parentPath, y.parentPath)
    ELSE Precedes(x.value, y.value)

RECURSIVE InsertSorted(_, _)
InsertSorted(sorted, x) ==
    IF sorted = <<>> THEN <<x>>
    ELSE IF HeaderBefore(x, sorted[1]) THEN <<x>> \o sorted
    ELSE <<sorted[1]>> \o InsertSorted(Tail(sorted), x)

RECURSIVE SortHeaders(_)
\* Array.sort is stable: an entry goes behind the entries it does not precede.
SortHeaders(values) ==
    IF values = <<>> THEN <<>>
    ELSE InsertSorted(SortHeaders(SubSeq(values, 1, Len(values) - 1)), values[Len(values)])

\* parentValues.join('|') of the ancestors of level levelIdx in a row.
ParentPath(row, levelIdx) == JoinWith(SubSeq(row, 1, levelIdx - 1), Bar)

\* parentPath ? `${parentPath}|${val}` : String(val)
UniqueKey(parentPath, val) ==
    IF parentPath # <<>> THEN parentPath \o <<Bar>> \o val ELSE val

RECURSIVE ValuesMap(_, _, _)
\* The Map of a level after the rows were visited: the first row with a key
\* sets its entry, with the default colspan.
ValuesMap(rows, levelIdx, numMeasures) ==
    IF rows = <<>> THEN <<>>
    ELSE LET before == ValuesMap(SubSeq(rows, 1, Len(rows) - 1), levelIdx, numMeasures)
             row == rows[Len(rows)]
             parentPath == ParentPath(row, levelIdx)
             uniqueKey == UniqueKey(parentPath, row[levelIdx])
         IN IF \E k \in 1..Len(before) : before[k].fullPath = uniqueKey
            THEN before
            ELSE Append(before, [value |-> row[levelIdx], parentPath |-> parentPath,
                                 fullPath |-> uniqueKey, colspan |-> numMeasures])

RECURSIVE SumColspans(_)
SumColspans(values) ==
    IF values = <<>> THEN 0 ELSE values[1].colspan + SumColspans(Tail(values))

\* The children of a parent: parentPath === parent.fullPath.
ChildrenOf(parent, childLevel) ==
    SelectSeq(childLevel, LAMBDA child : child.parentPath = parent.fullPath)

\* A parent level whose colspans are summed over the children.
WithColspans(parentLevel, childLevel, numMeasures) ==
    [k \in 1..Len(parentLevel) |->
        LET children == ChildrenOf(parentLevel[k], childLevel)
        IN [parentLevel[k] EXCEPT
               !.colspan = IF Len(children) > 0 THEN SumColspans(children)
                           ELSE numMeasures]]

RECURSIVE CalculateColspans(_, _, _)
\* for (let i = headers.length - 2; i >= 0; i--): level i from level i + 1.
CalculateColspans(headers, i, numMeasures) ==
    IF i < 1 THEN headers
    ELSE CalculateColspans(
            [headers EXCEPT ![i] = WithColspans(headers[i], headers[i + 1], numMeasures)],
            i - 1, numMeasures)

\* columnHeaders for the rows of a result with the given number of column
\* levels and measures: one sequence of header values per level.
columnHeaders(rows, levels, measures) ==
    LET numMeasures == IF measures = 0 THEN 1 ELSE measures
        headers == [levelIdx \in 1..levels |->
                       SortHeaders(ValuesMap(rows, levelIdx, numMeasures))]
    IN IF levels = 0 THEN <<>>
       ELSE CalculateColspans(headers, levels - 1, numMeasures)

\* leafColumns: the values of the last level.
leafColumns(headers) ==
    IF Len(headers) = 0 THEN <<>> ELSE headers[Len(headers)]

\* The rows a result holds: one value per column level.
ResultRows(levels) ==
    UNION {[1..n -> [1..levels -> HeaderValues]] : n \in 0..MaxRows}

\* The table is rendered for a result.
render(rows, levels, measures) ==
    rendered' = Append(rendered, [rows |-> rows, measures |-> measures,
                                  headers |-> columnHeaders(rows, levels, measures)])

TableStep ==
    /\ Len(rendered') <= MaxTables
    /\ UNCHANGED <<storeVars, queryHistory, nl2sql, registry, registryOps, issued,
                   compilerVars, calls>>

NextTable ==
    \E levels \in 1..MaxLevels, measures \in 0..MaxMeasures :
       \E rows \in ResultRows(levels) : render(rows, levels, measures) /\ TableStep

SpecTable == Init /\ [][NextTable]_vars

----------------------------------------------------------------------------
(* Properties of the drill-down state machine.  The fields of an expanded    *)
(* key are those buildDrillDownConfig reads from it with split(':').         *)

KeyType(key) == Split(key)[1]
KeyDimension(key) == Split(key)[2]
KeyLevel(key) == Split(key)[3]
KeyValue(key) == Split(key)[4]

AxisList(config, type) ==
    IF type = S("row") THEN config.rows
    ELSE IF type = S("col") THEN config.columns
    ELSE <<>>

FieldOf(dimension, level) == [dimension |-> dimension, level |-> level]

OnList(list, dimension, level) ==
    \E i \in 1..Len(list) : SameField(list[i], dimension, level)

Occurrences(list, dimension, level) ==
    Cardinality({i \in 1..Len(list) : SameField(list[i], dimension, level)})

Adjacent(list, first, second) ==
    \E i \in 1..(Len(list) - 1) : list[i] = first /\ list[i + 1] = second

\* The '=' filter an expansion of (dimension, level, value) appends.
ExpansionFilter(dimension, level, value) ==
    [dimension |-> dimension, level |-> level, operator |-> "=", values |-> <<value>>]

PivotRequests == {i \in 1..Len(inflight) : inflight[i].api = "executePivotQuery"}

\* C1 as stated: for every expanded key (axis, D, L, V) with D/L on the base
\* list of its axis and a next level L' after L, the effective list of that
\* axis holds D/L immediately followed by D/L', whatever else the base list
\* holds.
C1_AdjacencyWhateverTheBase ==
    \A i \in 1..Len(expandedItems) :
        LET key == expandedItems[i]
            D == KeyDimension(key)
            L == KeyLevel(key)
            next == getNextLevel(D, L)
        IN (OnList(AxisList(pivotConfig, KeyType(key)), D, L) /\ next # Null)
           => Adjacent(AxisList(buildDrillDownConfig, KeyType(key)),
                       FieldOf(D, L), FieldOf(D, next[1].name))

\* C1 amended: for every expanded key (axis, D, L, V) with D/L on the base
\* list of its axis, a next level L' after L and D/L' not already on that base
\* list, the effective list of that axis holds D/L immediately followed by
\* D/L'.
C1_InsertionAdjacency ==
    \A i \in 1..Len(expandedItems) :
        LET key == expandedItems[i]
            D == KeyDimension(key)
            L == KeyLevel(key)
            next == getNextLevel(D, L)
            base == AxisList(pivotConfig, KeyType(key))
        IN (OnList(base, D, L) /\ next # Null /\ ~OnList(base, D, next[1].name))
           => Adjacent(AxisList(buildDrillDownConfig, KeyType(key)),
                       FieldOf(D, L), FieldOf(D, next[1].name))

\* A drill-down on Year of the rows [Date/Year] has sent the query whose rows
\* are [Date/Year, Date/Quarter].
C1_Witness ==
    /\ pivotConfig.rows = <<Field("Date", "Year")>>
    /\ Contains(expandedItems, KeyOf("row", S("Date"), S("Year"), Num(S("2024"))))
    /\ \E i \in PivotRequests :
          inflight[i].query.rows = <<Field("Date", "Year"), Field("Date", "Quarter")>>

\* The orders in which the keys of items can have been inserted.
KeyOrders(items) ==
    {order \in [1..Len(items) -> Range(items)] : Range(order) = Range(items)}

CountIn(seq, x) == Cardinality({i \in 1..Len(seq) : seq[i] = x})

SameMultiset(a, b) == \A x \in Range(a) \cup Range(b) : CountIn(a, x) = CountIn(b, x)

\* C2 as stated: the effective config depends only on the base config and the
\* set of expanded keys: whatever order the toggles left the keys in, the row
\* list and the column list are the same and the filters are the same multiset.
C2_TogglesCommute ==
    \A order \in KeyOrders(expandedItems) :
        LET other == EffectiveConfig(pivotConfig, order, cubeMetadata)
        IN /\ other.rows = buildDrillDownConfig.rows
           /\ other.columns = buildDrillDownConfig.columns
           /\ SameMultiset(other.filters, buildDrillDownConfig.filters)

\* C4 as stated: an expanded key (axis, D, L, V) whose D/L is not on that axis
\* of the base config has no effect on the effective config: the config is the
\* one built without the key.
C4_StaleKeyHasNoEffect ==
    \A i \in 1..Len(expandedItems) :
        LET key == expandedItems[i]
        IN ~OnList(AxisList(pivotConfig, KeyType(key)), KeyDimension(key), KeyLevel(key))
           => buildDrillDownConfig =
                 EffectiveConfig(pivotConfig, Without(expandedItems, key), cubeMetadata)

\* C5 as stated: the filter list of the effective config never holds two
\* filters with the identical (dimension, level, value) triple.
C5_NoDuplicateFilters ==
    LET filters == buildDrillDownConfig.filters
    IN \A i, j \in 1..Len(filters) :
          (i # j) => ~(/\ filters[i].dimension = filters[j].dimension
                       /\ filters[i].level = filters[j].level
                       /\ filters[i].values = filters[j].values)

\* C7 as stated: after a toggle has expanded (axis, D, L, V) where L has a next
\* level, the effective config's filter list holds the filter {D, L, '=', [V]}
\* for exactly the value V the toggle was called with.
C7_FilterHoldsTheToggledValue ==
    [][\A a \in ToggleArgs :
          /\ (drillDownRow(a[1], a[2], a[3])
                /\ isExpanded("row", a[1], a[2], a[3])' /\ hasNextLevel(a[1], a[2]))
             => Contains(buildDrillDownConfig'.filters, ExpansionFilter(a[1], a[2], a[3]))
          /\ (drillDownColumn(a[1], a[2], a[3])
                /\ isExpanded("col", a[1], a[2], a[3])' /\ hasNextLevel(a[1], a[2]))
             => Contains(buildDrillDownConfig'.filters, ExpansionFilter(a[1], a[2], a[3]))
      ]_vars

\* No metadata is loaded, or the dimension is not one of the cube, or the level
\* is not one of the dimension, or the level is the dimension's last.
NoLevelAfter(dimension, level) ==
    \/ cubeMetadata = Null
    \/ LET dims == cubeMetadata[1].dimensions
       IN \A d \in 1..Len(dims) :
             dims[d].name = dimension =>
                \A l \in 1..Len(dims[d].levels) :
                   dims[d].levels[l].name = level => l = Len(dims[d].levels)

\* C9: an expanded key whose level has no next level in the current metadata
\* (the last level, not a level of the dimension, not a dimension of the cube,
\* or no metadata loaded) adds no level and no filter: the effective config is
\* the one built without the key.
C9_KeyWithoutNextLevelIsIgnored ==
    \A i \in 1..Len(expandedItems) :
        LET key == expandedItems[i]
        IN NoLevelAfter(KeyDimension(key), KeyLevel(key))
           => buildDrillDownConfig =
                 EffectiveConfig(pivotConfig, Without(expandedItems, key), cubeMetadata)

\* A key for a level the Date dimension does not have is expanded next to the
\* key of Date/Year, and the query in flight was built from both: the rows
\* grew by Date/Quarter and the only filter is the one of the Date/Year key.
C9_Witness ==
    /\ pivotConfig.rows = <<Field("Date", "Year")>>
    /\ pivotConfig.filters = <<>>
    /\ isExpanded("row", S("Date"), S("Year"), Num(S("2024")))
    /\ isExpanded("row", S("Date"), S("Week"), Str(S("W1")))
    /\ \E i \in PivotRequests :
          /\ inflight[i].query.rows = <<Field("Date", "Year"), Field("Date", "Quarter")>>
          /\ Len(inflight[i].query.filters) = 1

\* The values of the expanded keys of one axis, dimension and level.
SiblingKeys(key) ==
    {k \in Range(expandedItems) :
        /\ KeyType(k) = KeyType(key)
        /\ KeyDimension(k) = KeyDimension(key)
        /\ KeyLevel(k) = KeyLevel(key)
        /\ KeyValue(k) # KeyValue(key)}

C3_ToggleTwiceRestores ==
    lastOp.second => Range(expandedItems) = Range(lastOp.before)

\* A row header was toggled twice while the Sales cube was selected and
\* another key was expanded.
C3_Witness ==
    /\ lastOp.second
    /\ lastOp.op = "drillDownRow"
    /\ lastOp.before # <<>>
    /\ currentCube = Some("Sales")

Toggles == {"drillDownRow", "drillDownColumn"}

FlippedKeys == (Range(expandedItems') \ Range(expandedItems))
                  \cup (Range(expandedItems) \ Range(expandedItems'))

\* C6 as stated: the set of expanded keys changes only through a toggle, which
\* flips exactly the key it names; no other store operation changes the set.
C6_OnlyTogglesWrite ==
    [][/\ lastOp'.op \in Toggles /\ lastOp' # lastOp => FlippedKeys = {lastOp'.key}
       /\ Range(expandedItems') # Range(expandedItems) => lastOp'.op \in Toggles
      ]_vars

\* C6 amended: a toggle flips exactly the key it names; executePivotQuery,
\* resetPivotConfig and a selectCube whose metadata request succeeds empty the
\* set; no other store operation changes it.
C6_OnlyTogglesAndResetsWrite ==
    [][/\ lastOp'.op \in Toggles /\ lastOp' # lastOp => FlippedKeys = {lastOp'.key}
       /\ Range(expandedItems') # Range(expandedItems) =>
             \/ lastOp'.op \in Toggles
             \/ /\ lastOp'.op \in {"executePivotQuery", "resetPivotConfig", "selectCube"}
                /\ expandedItems' = <<>>
      ]_vars

\* executePivotQuery has emptied a set of two expanded keys and its query is
\* in flight.
C6_Witness ==
    /\ lastOp.op = "executePivotQuery"
    /\ Len(lastOp.before) = 2
    /\ expandedItems = <<>>
    /\ PivotRequests # {}

\* C8 as stated: a toggle of the tuple k changes isExpanded for k only: for
\* every other tuple (axis, dimension, level, value) isExpanded is the same
\* before and after.
C8_ToggleFlipsOneTuple ==
    [][\A a \in ToggleArgs :
          drillDownRow(a[1], a[2], a[3]) =>
             \A type \in {"row", "col"}, b \in ToggleArgs :
                <<type, b>> # <<"row", a>> =>
                   isExpanded(type, b[1], b[2], b[3])' = isExpanded(type, b[1], b[2], b[3])
      ]_vars

\* C11: a call of buildDrillDownConfig changes neither the base pivotConfig
\* (its rows, columns, measures and filters lists) nor the expanded keys, it
\* returns the effective config, and a second call right after it returns an
\* equal config.
C11_BuildIsPure ==
    [][effectiveConfig =>
          /\ pivotConfig' = pivotConfig
          /\ expandedItems' = expandedItems
          /\ buildDrillDownConfigCall(pivotConfig, expandedItems, cubeMetadata).returned
                = buildDrillDownConfig
          /\ buildDrillDownConfigCall(pivotConfig', expandedItems', cubeMetadata').returned
                = buildDrillDownConfigCall(pivotConfig, expandedItems, cubeMetadata).returned
      ]_vars

\* buildDrillDownConfig was called with Date/Year expanded on the rows
\* [Date/Year]: the config it returned has a level and a filter more than the
\* base config.
C11_Witness ==
    /\ lastOp.op = "buildDrillDownConfig"
    /\ pivotConfig.rows = <<Field("Date", "Year")>>
    /\ isExpanded("row", S("Date"), S("Year"), Num(S("2024")))
    /\ buildDrillDownConfig.rows = <<Field("Date", "Year"), Field("Date", "Quarter")>>
    /\ Len(buildDrillDownConfig.filters) = Len(pivotConfig.filters) + 1

\* The positions of a level in the ordered level list of a dimension of the
\* current metadata.
PositionsOf(dimension, level) ==
    IF cubeMetadata = Null THEN {}
    ELSE LET dims == cubeMetadata[1].dimensions
         IN {i \in UNION {1..Len(dims[d].levels) : d \in 1..Len(dims)} :
               \E d \in 1..Len(dims) :
                /\ dims[d].name = dimension
                /\ i <= Len(dims[d].levels)
                /\ dims[d].levels[i].name = level}

\* The fields the effective list of an axis holds and the base list does not.
Revealed(type) ==
    Range(AxisList(buildDrillDownConfig, S(type))) \ Range(AxisList(pivotConfig, S(type)))

\* C12: for the level at position i of a dimension's ordered level list, not
\* the last, getNextLevel returns exactly the level at position i + 1; and
\* every level the effective config reveals on an axis is one step below the
\* level of an expanded key of that axis and dimension.
C12_NextLevelIsOneStepBelow ==
    /\ cubeMetadata # Null =>
          LET dims == cubeMetadata[1].dimensions
          IN \A d \in 1..Len(dims) : \A i \in 1..(Len(dims[d].levels) - 1) :
                getNextLevel(dims[d].name, dims[d].levels[i].name)
                   = Some(dims[d].levels[i + 1])
    /\ \A type \in {"row", "col"} : \A f \in Revealed(type) :
          \E key \in Range(expandedItems) :
             /\ KeyType(key) = S(type)
             /\ KeyDimension(key) = f.dimension
             /\ \E i \in PositionsOf(f.dimension, KeyLevel(key)) :
                   (i + 1) \in PositionsOf(f.dimension, f.level)

\* Date/Quarter is expanded on the rows [Date/Quarter] and the query in flight
\* reveals Date/Month after it.
C12_Witness ==
    /\ pivotConfig.rows = <<Field("Date", "Quarter")>>
    /\ isExpanded("row", S("Date"), S("Quarter"), Str(S("Q1")))
    /\ \E i \in PivotRequests :
          inflight[i].query.rows = <<Field("Date", "Quarter"), Field("Date", "Month")>>

IsPrefix(a, b) == Len(a) <= Len(b) /\ a = SubSeq(b, 1, Len(a))

\* The stage an error of the pipeline comes from.
StagesUpTo(errorText) ==
    IF errorText = "LLMError" THEN SubSeq(StageOrder, 1, 3)
    ELSE IF errorText = "ExtractionError" THEN SubSeq(StageOrder, 1, 4)
    ELSE IF errorText \in {"ExecutionTimeout", "ExecutionError"} THEN StageOrder
    ELSE SubSeq(StageOrder, 1, 5)

\* The words of the five-keyword blocklist a statement holds, in any letter case.
BlockedWords(statement) ==
    {i \in 1..Len(statement) :
        /\ statement[i].kind = "word"
        /\ statement[i].letters \in {"update", "delete", "drop", "alter", "insert"}}

\* C13: in every run of the pipeline the stages run at most once each in the
\* fixed order; the warehouse executes only the statement validation has
\* accepted, once; and when a stage fails no later stage runs.
C13_StagesInOrderAndGated ==
    /\ IsPrefix(nl2sql.ran, StageOrder)
    /\ nl2sql.executed # <<>> =>
          /\ nl2sql.statement # Null
          /\ BlockedWords(nl2sql.statement[1]) = {}
          /\ WordsOf(nl2sql.statement[1]) \subseteq (Whitelist \cup SQLKeywords)
          /\ nl2sql.validated # Null
          /\ nl2sql.executed = <<nl2sql.validated[1]>>
          /\ IsPrefix(SubSeq(StageOrder, 1, 5), nl2sql.ran)
    /\ (nl2sql.result # Null /\ nl2sql.result[1].error # Null) =>
          nl2sql.ran = StagesUpTo(nl2sql.result[1].error[1])

\* A run went through all six stages and its statement was executed.
C13_Witness ==
    /\ nl2sql.ran = StageOrder
    /\ nl2sql.executed = <<Limited(50)>>
    /\ nl2sql.result # Null
    /\ nl2sql.result[1].error = Null

LimitOf(statement) ==
    {statement[i].value : i \in {j \in 3..Len(statement) :
                                    /\ statement[j].kind = "number"
                                    /\ statement[j - 2].kind = "word"
                                    /\ statement[j - 2].letters = "limit"}}

\* The statement with the values after LIMIT left out of the comparison.
LimitBlanked(statement) ==
    [i \in 1..Len(statement) |->
        IF statement[i].kind = "number" THEN Number(0) ELSE statement[i]]

\* C15: every statement handed to the warehouse carries a LIMIT of at most the
\* cap: without a LIMIT the cap is appended, a LIMIT above the cap is lowered
\* to the cap, and a LIMIT at or below the cap passes through unchanged.
C15_ExecutedLimitIsCapped ==
    \A k \in 1..Len(nl2sql.executed) :
       LET sent == nl2sql.executed[k]
           extracted == nl2sql.statement[1]
       IN /\ LimitOf(sent) # {}
          /\ \A v \in LimitOf(sent) : v <= ResultCap
          /\ LimitOf(extracted) = {} =>
                /\ LimitOf(sent) = {ResultCap}
                /\ Len(sent) > Len(extracted)
                /\ SubSeq(sent, 1, Len(extracted)) = extracted
          /\ \A v \in LimitOf(extracted) :
                /\ v <= ResultCap => sent = extracted
                /\ v > ResultCap =>
                      /\ LimitOf(sent) = {ResultCap}
                      /\ LimitBlanked(sent) = LimitBlanked(extracted)

\* A statement asking for 5000 rows was executed with the cap.
C15_Witness ==
    /\ nl2sql.statement = Some(Limited(5000))
    /\ nl2sql.executed = <<Limited(ResultCap)>>

\* The tables and columns a statement names that the cube metadata does not
\* hold.
UnknownNames(statement) ==
    {statement[i].letters : i \in {j \in 1..Len(statement) : statement[j].kind = "word"}}
        \ (Whitelist \cup SQLKeywords \cup MutatingKeywords)

\* C16: a statement that references a table or a column outside the cube
\* metadata whitelist fails validation and is not executed.
C16_WhitelistIsSound ==
    (/\ nl2sql.statement # Null
     /\ UnknownNames(nl2sql.statement[1]) # {}
     /\ "validation" \in Range(nl2sql.ran)) =>
        /\ nl2sql.validated = Null
        /\ nl2sql.executed = <<>>
        /\ nl2sql.result # Null
        /\ nl2sql.result[1].error \in
              {Some(UnsafeQueryError("mutating keyword")),
               Some(UnsafeQueryError("not in whitelist"))}

\* A SELECT from a table the metadata does not hold was rejected by the
\* whitelist rule.
C16_Witness ==
    /\ nl2sql.statement # Null
    /\ UnknownNames(nl2sql.statement[1]) = {"secret_table"}
    /\ nl2sql.result # Null
    /\ nl2sql.result[1].error = Some(UnsafeQueryError("not in whitelist"))
    /\ nl2sql.executed = <<>>

\* C17: nothing is retried.  A run of the pipeline calls the completion
\* provider and the warehouse at most once each, a failed completion or
\* execution ends the run with that error, and a call of executeNaturalQuery or
\* executePivotQueryWithDrillDown sends at most one API request.
C17_NothingIsRetried ==
    /\ issued <= 1
    /\ nl2sql.completions <= 1
    /\ Len(nl2sql.executed) <= 1
    /\ (nl2sql.result # Null /\ nl2sql.result[1].error # Null) =>
          nl2sql.pc \in {"respond", "idle"}

\* A question whose execution timed out came back to the store: one request
\* was sent, none is in flight, and the error is shown.
C17_Witness ==
    /\ nl2sql.result # Null
    /\ nl2sql.result[1].error = Some("ExecutionTimeout")
    /\ nl2sql.pc = "idle"
    /\ Len(nl2sql.executed) = 1
    /\ issued = 1
    /\ inflight = <<>>
    /\ error = Some("ExecutionTimeout")

\* The response of the pipeline reaches the store in this step.
ResponseDelivered ==
    /\ nl2sql.pc = "respond"
    /\ nl2sql'.pc = "idle"
    /\ nl2sql'.http = Some("response")

\* C18: when the response to a question carries an error, executeNaturalQuery
\* completes with that error in the store's error field and with loading
\* cleared, and the history entry the question gets is marked unsuccessful.
C18_ErrorResponseIsShown ==
    [][(ResponseDelivered /\ nl2sql.result[1].error # Null) =>
          /\ queryResult' = nl2sql.result
          /\ error' = nl2sql.result[1].error
          /\ ~loading'
          /\ Len(queryHistory') = Len(queryHistory) + 1
          /\ queryHistory'[1].success = FALSE
          /\ queryHistory'[1].sql = nl2sql.result[1].sql]_vars

\* The safety gate rejected the statement of a question: the store shows the
\* error and the history holds the question as failed.
C18_Witness ==
    /\ nl2sql.pc = "idle"
    /\ nl2sql.http = Some("response")
    /\ nl2sql.result # Null
    /\ queryResult = nl2sql.result
    /\ error = Some(UnsafeQueryError("mutating keyword"))
    /\ Len(queryHistory) = 1
    /\ ~queryHistory[1].success

\* The query executePivotQueryWithDrillDown sends in the current state.
SentByExecution ==
    QueryOf(currentCube[1], EffectiveConfig(pivotConfig, expandedItems, cubeMetadata))

\* This step sends a preview request.
PreviewSent ==
    /\ Len(inflight') = Len(inflight) + 1
    /\ inflight'[Len(inflight')].api = "previewPivotSQL"

\* This step takes the response of a preview request.
PreviewAnswered ==
    \E i \in 1..Len(inflight) :
       /\ inflight[i].api = "previewPivotSQL"
       /\ inflight' = RemoveAt(inflight, i)

CompleteCubes(cubeName) ==
    {parse(d) : d \in {x \in Documents : ~IsSchemaError(x) /\ x.name = cubeName}}

\* The fields the reader has seen so far all come from this cube.
SeenFrom(read, cube) ==
    \A i \in 1..Len(CubeFields) :
       read.seen[CubeFields[i]] \in {Null, Some(cube[CubeFields[i]])}

UnresolvedLevels(cube, config) ==
    {f \in Range(GroupedLevels(config))
           \cup {PivotField(config.filters[i].dimension, config.filters[i].level) :
                    i \in 1..Len(config.filters)} :
        \A i \in 1..Len(cube.dimensions) :
           cube.dimensions[i].name = f.dimension => f.level \notin Range(cube.dimensions[i].levels)}

UnresolvedMeasures(cube, config) ==
    {m \in Range(config.measures) :
        \A i \in 1..Len(cube.measures) : cube.measures[i].name # m}

\* C22: a compile call whose configuration holds a (dimension, level) on the
\* rows, the columns or a filter, or a measure name, that the cube does not
\* hold fails with CompileError(UnknownField) and gives no SQL; a call that
\* gives SQL names every level and every measure of its configuration.
C22_UnknownFieldIsAnError ==
    \A k \in 1..Len(compileLog) :
       LET call == compileLog[k]
       IN /\ (UnresolvedLevels(call.cube, call.config) # {}
                 \/ UnresolvedMeasures(call.cube, call.config) # {}) =>
                /\ call.out.error = Some("UnknownField")
                /\ call.out.sql = <<>>
          /\ call.out.error = Null =>
                /\ \A f \in Range(GroupedLevels(call.config)) :
                      LevelAlias(f) \in Range(call.out.columns)
                /\ \A m \in Range(call.config.measures) :
                      Lower(m) \in Range(call.out.sql)

\* The measure NotAMeasure was asked of the Sales cube and the call failed.
C22_Witness ==
    \E k \in 1..Len(compileLog) :
       /\ compileLog[k].cube = parse(SalesDocument)
       /\ compileLog[k].config.measures = <<"NotAMeasure">>
       /\ compileLog[k].out = CompileError("UnknownField")

\* The requests of selectCube and of the functions that end in it.
SelectionRequests == {"getCubeMetadata", "getCubes", "uploadSchema", "uploadSchemaText"}

SelectionsCompleted == \A i \in 1..Len(inflight) : inflight[i].api \notin SelectionRequests

\* C24: once every selectCube call (the auto-select of loadCubes included) has
\* completed, and none of them failed, currentCube names the cube of the
\* call issued last, whatever the order of the metadata responses.
C24_LastSelectionWins ==
    (SelectionsCompleted /\ ~calls.failed /\ calls.selected # Null) =>
        currentCube = calls.selected

\* The requests of the store actions that set loading.
TrackedRequests ==
    {"uploadSchema", "uploadSchemaText", "getCubes", "getCubeMetadata",
     "executePivotQuery", "executeNL2SQL"}

\* C25: loading is true as long as a request of a loading-tracked store
\* action is in flight, however the actions overlap.
C25_LoadingWhileInFlight ==
    (\E i \in 1..Len(inflight) : inflight[i].api \in TrackedRequests) => loading

\* C26: once an upload has completed without a failure, the metadata the
\* store holds for the selected cube is the definition the registry holds
\* now, the one uploaded last under that name.
C26_MetadataFollowsUpload ==
    (SelectionsCompleted /\ ~calls.failed /\ currentCube # Null) =>
        cubeMetadata = Some(MetadataOfCube(RegisteredCube(currentCube[1])))

\* C28: currentCube and cubeMetadata are both null or both set; the metadata
\* held is a response the server gave for the cube currentCube names; and
\* every entry of pivotConfig and of the drill state was chosen under the
\* cube selected now, however loadCubes and selectCube calls interleave.
C28_SelectionIsConsistent ==
    /\ (currentCube = Null) <=> (cubeMetadata = Null)
    /\ currentCube # Null =>
          \E k \in 1..Len(registry.snapshots) :
             /\ registry.snapshots[k].name = currentCube[1]
             /\ cubeMetadata = Some(MetadataOfCube(registry.snapshots[k]))
    /\ calls.chosen \subseteq {currentCube}

\* Ops is selected, a row field and a drill key were chosen under it, and a
\* selection of Sales is still in flight.
C28_Witness ==
    /\ currentCube = Some("Ops")
    /\ pivotConfig.rows # <<>>
    /\ expandedItems # <<>>
    /\ calls.chosen = {Some("Ops")}
    /\ \E i \in 1..Len(inflight) :
          inflight[i].api = "getCubeMetadata" /\ inflight[i].cubeName = "Sales"

\* The query of the configuration shown now: the base configuration with the
\* expanded keys applied.
CurrentQuery ==
    QueryOf(currentCube[1], EffectiveConfig(pivotConfig, expandedItems, cubeMetadata))

\* C23: when no pivot query is in flight and nothing but drill toggles was
\* called since the last of them, queryResult is the response to the query
\* built from the keys expanded now, however the toggles and their responses
\* overlap, and when a re-executed query fails.
C23_ResultMatchesExpandedKeys ==
    ((\A i \in 1..Len(inflight) : inflight[i].api # "executePivotQuery")
        /\ ~calls.edited) =>
       /\ queryResult # Null
       /\ queryResult[1] \in AnswersTo(CurrentQuery)

\* A question request left the requests in flight in this step.
QuestionAnswered ==
    \E i \in 1..Len(inflight) :
       inflight[i].api = "executeNL2SQL" /\ inflight' = RemoveAt(inflight, i)

\* The question of the request that left.
QuestionOfAnswered ==
    LET i == CHOOSE i \in 1..Len(inflight) :
                inflight[i].api = "executeNL2SQL" /\ inflight' = RemoveAt(inflight, i)
    IN inflight[i].query.question

\* C29: queryHistory never holds more than 10 entries and the newest comes
\* first; a question that is answered adds one entry in front, and with 10
\* entries held the last one leaves; any other step (a blank question, no
\* cube selected, a call that throws) leaves the history as it is.
C29_HistoryKeepsTheLastTen ==
    /\ [](/\ Len(queryHistory) <= HistoryLimit
          /\ \A i \in 1..(Len(queryHistory) - 1) :
                queryHistory[i].timestamp >= queryHistory[i + 1].timestamp)
    /\ [][IF QuestionAnswered /\ nl2sql'.http = Some("response")
          THEN /\ queryHistory'[1].question = QuestionOfAnswered
               /\ queryHistory'[1].question # <<>>
               /\ queryHistory'[1].question[1] # Blank
               /\ queryHistory'[1].question[Len(queryHistory'[1].question)] # Blank
               /\ queryHistory'[1].timestamp = calls.submitted
               /\ Tail(queryHistory') =
                     IF Len(queryHistory) = HistoryLimit
                     THEN SubSeq(queryHistory, 1, HistoryLimit - 1)
                     ELSE queryHistory
          ELSE queryHistory' = queryHistory]_vars

\* Eleven questions were answered, a twelfth submission added nothing, and
\* the history holds the last ten.
C29_Witness ==
    /\ Len(queryHistory) = HistoryLimit
    /\ calls.added = HistoryLimit + 1
    /\ calls.submitted = HistoryLimit + 2
    /\ inflight = <<>>

\* What a selectCube call must leave alone when its request fails.
selectionVars ==
    <<currentCube, cubeMetadata, pivotConfig, expandedItems, queryResult, generatedSQL>>

\* selectCube was called in this step: it sent its metadata request.
SelectCubeCalled ==
    \E c \in CubeNames : inflight' = Append(inflight, Request("getCubeMetadata", c, NoQuery))

\* C27: the call of selectCube and the continuation that takes the failure
\* of its metadata request write neither currentCube, cubeMetadata,
\* pivotConfig, the expanded keys, queryResult nor generatedSQL; the failure
\* sets error and leaves loading false.
C27_FailedSelectionChangesNothing ==
    [][/\ SelectCubeCalled => UNCHANGED selectionVars
       /\ calls'.rejected = Some("getCubeMetadata") =>
             /\ UNCHANGED selectionVars
             /\ error' = Some(RequestFailed)
             /\ ~loading']_vars

\* Sales is selected with a row field and an expanded key, and the request of
\* a selection of Ops has just failed.
C27_Witness ==
    /\ calls.rejected = Some("getCubeMetadata")
    /\ calls.selected = Some("Ops")
    /\ currentCube = Some("Sales")
    /\ pivotConfig.rows # <<>>
    /\ expandedItems # <<>>
    /\ error = Some(RequestFailed)

\* C30: in every rendered table without a null column value, a parent
\* header's colspan is the sum of the colspans of its children, and at every
\* level the colspans sum to the number of leaf columns times the number of
\* measures (at least 1).
C30_ColspansAddUp ==
    \A t \in 1..Len(rendered) :
       LET headers == rendered[t].headers
           numMeasures == IF rendered[t].measures = 0 THEN 1 ELSE rendered[t].measures
       IN /\ \A i \in 1..(Len(headers) - 1) : \A k \in 1..Len(headers[i]) :
                headers[i][k].colspan =
                   SumColspans(ChildrenOf(headers[i][k], headers[i + 1]))
          /\ \A i \in 1..Len(headers) :
                SumColspans(headers[i]) = Len(leafColumns(headers)) * numMeasures

====
